---- MODULE Spec2Model ----
(***************************************************************************)
(* A model of the bumpalo arena (src/src/lib.rs): the chunk chain, the     *)
(* downward bump pointer, the fast and slow allocation paths, dealloc and  *)
(* realloc of the Alloc adapter, and reset.                                *)
(*                                                                         *)
(* Addresses are natural numbers.  A chunk is identified, as in the code,  *)
(* by the address of its ChunkFooter; `footers` maps the footer address of *)
(* every chunk the arena still owns to the fields of that footer.  The     *)
(* Option<NonNull<_>> fields use None (0, the null address) for `None`.    *)
(***************************************************************************)
EXTENDS Integers, Naturals, Sequences, FiniteSets, TLC

\* ------------------------------------------------------------------------
\* Bounds of the model.
\* ------------------------------------------------------------------------

\* Number of arena operations in one behaviour.
MaxOps == 4

\* The longest slice handed to alloc_slice_copy.
MaxSlice == 2

\* Number of blocks the client holds at one time.
MaxLive == 2

\* Width of usize in the model; addresses and sizes are below 2^WordBits.
WordBits == 16

\* ------------------------------------------------------------------------
\* Program constants.
\* ------------------------------------------------------------------------

\* mem::size_of::<ChunkFooter>(): six words (data, layout.size,
\* layout.align, prev, ptr, end_of_first_allocation).
FOOTER_SIZE == 48

\* mem::align_of::<ChunkFooter>()
DEFAULT_CHUNK_ALIGN == 8

MALLOC_OVERHEAD == 16

DEFAULT_CHUNK_SIZE_WITH_FOOTER == 512 - MALLOC_OVERHEAD

USIZE_MAX == 2^WordBits - 1

ISIZE_MAX == 2^(WordBits - 1) - 1

\* `None` of Option<NonNull<_>>: the null address.
None == 0

\* `None` of Option<usize> (a checked operation that overflowed).
Nothing == -1

\* A byte no client has written: indeterminate contents (MaybeUninit<u8>).
Uninit == -2

\* ------------------------------------------------------------------------
\* Inputs.
\* ------------------------------------------------------------------------

Layout(s, a) == [size |-> s, align |-> a]

\* Types passed to Bump::alloc (size is a multiple of the alignment, as for
\* every Rust type): u8, u64.
ValueLayouts == {Layout(1, 1), Layout(8, 8)}

\* Layouts passed to Bump::alloc_layout.
RawLayouts == {Layout(0, 16), Layout(3, 4), Layout(445, 1), Layout(950, 16)}

\* new_size arguments of realloc.
NewSizes == {0, 5, 600}

\* The sizes realloc grows a block to where growth is what is examined.
GrowSizes == {16, 600}

\* The capacities Bump::with_capacity is called with, and the layouts
\* allocated from the arenas it makes.
Capacities == {64, 1000}

CapLayouts == {Layout(1, 1), Layout(500, 1)}

\* The layouts that fill a chunk to its last byte: the second chunk of an
\* arena holds 992 bytes, 944 of them below its footer, which two blocks of
\* 472 bytes or one of 944 take up exactly; one more byte needs a chunk.
FillLayouts == {Layout(1, 1), Layout(472, 1), Layout(944, 1)}

\* The element types of the slices handed to alloc_slice_copy, by their
\* size in bytes (u8, u16), and the values of their elements.
ElemSizes == {1, 2}

Elems(elem) == IF elem = 1 THEN <<255, 0>> ELSE <<258, 65535>>

\* The slices: those of up to MaxSlice elements that take the two values in
\* turn.
Slices(elem) ==
    {[i \in 1 .. n |-> Elems(elem)[2 - (i % 2)]] : n \in 0 .. MaxSlice}

\* The layouts allocated while the system allocator may answer null: one
\* that the first chunk holds and one that it does not.
OomLayouts == {Layout(445, 1), Layout(950, 16)}

\* Layouts at the sizes where the arithmetic of new_chunk overflows: the
\* largest size, the largest multiple of 8 (to which adding the footer
\* wraps), one above half the address space and the largest whose chunk
\* would be half the address space, besides one of 8 bytes and one that
\* needs a second chunk.
BigLayouts ==
    {Layout(USIZE_MAX, 1),
     Layout(USIZE_MAX - 7, 8),
     Layout((USIZE_MAX + 1) \div 2 + 8, 8),
     Layout((USIZE_MAX + 1) \div 2 - 48, 8),
     Layout(8, 8),
     Layout(950, 8)}

\* The 16-byte regions of the chunk growth scenario, and how many of them a
\* client allocates.
RegionLayouts == {Layout(16, 1), Layout(16, 16)}

MaxRegions == 60

\* Entries the drop list is given.
MaxEntries == 4

\* Layouts whose size is a multiple of their alignment.
UniformLayouts == {Layout(k * a, a) : k \in {0, 1, 30}, a \in {1, 4, 16}}

\* Distances from the end of the system heap at which the system allocator
\* may place the next region (before rounding up to the region's alignment).
SysGaps == {8, 16}

\* Inputs of the Layout methods: sizes, alignments and counts around 0, the
\* middle and the top of usize.
HalfWord == 2^(WordBits - 1)

LayoutSizes ==
    {0, 1, 3, 8, 9, 16, HalfWord - 1, HalfWord, HalfWord + 1,
     USIZE_MAX - 8, USIZE_MAX - 7, USIZE_MAX - 2, USIZE_MAX}

LayoutAligns == {1, 2, 8, 16, HalfWord}

LayoutCounts == {0, 1, 2, 3, HalfWord, USIZE_MAX}

\* Layout::new::<T>() of some types T: the size is a multiple of the
\* alignment and at most isize::MAX.
TypeLayouts ==
    {l \in [size : {0, 1, 8, 16, 24, HalfWord - 8, HalfWord - 1}, align : {1, 8}] :
        l.size % l.align = 0}

\* ------------------------------------------------------------------------
\* Arithmetic helpers.
\* ------------------------------------------------------------------------

\* n & !(align - 1) for a power of two `align`.
AlignDown(n, align) == n - (n % align)

\* n.checked_add(divisor - 1)? & !(divisor - 1)
round_up_to(n, divisor) ==
    IF n + (divisor - 1) > USIZE_MAX
    THEN Nothing
    ELSE AlignDown(n + (divisor - 1), divisor)

Max(a, b) == IF a >= b THEN a ELSE b

Min(a, b) == IF a <= b THEN a ELSE b

\* usize arithmetic: wrapping_* is taken modulo 2^WordBits, checked_* is
\* Nothing where the result does not fit.
wrapping_add(a, b) == (a + b) % (2^WordBits)

wrapping_sub(a, b) == (a - b) % (2^WordBits)

checked_add(a, b) == IF a + b > USIZE_MAX THEN Nothing ELSE a + b

\* a * b > USIZE_MAX, decided without forming a product that large.
checked_mul(a, b) == IF b # 0 /\ a > USIZE_MAX \div b THEN Nothing ELSE a * b

\* ------------------------------------------------------------------------
\* Layout methods (alloc.rs).
\* ------------------------------------------------------------------------

\* padding_needed_for that rounds up from len + align, not len + align - 1.
padding_needed_for_next_multiple(layout, align) ==
    LET len == layout.size
        len_rounded_up == AlignDown(wrapping_add(len, align), align)
    IN  wrapping_sub(len_rounded_up, len)

\* Layout::padding_needed_for(align), for a power of two `align`.
padding_needed_for(layout, align) ==
    LET len == layout.size
        len_rounded_up == AlignDown(wrapping_sub(wrapping_add(len, align), 1), align)
    IN  wrapping_sub(len_rounded_up, len)

\* Ok((layout, stride))
LayoutOk(layout, stride) ==
    [err |-> FALSE, abort |-> FALSE, layout |-> layout, stride |-> stride]

\* Err(LayoutErr)
LayoutErr == [err |-> TRUE, abort |-> FALSE, layout |-> Layout(0, 0), stride |-> 0]

\* The process aborted on a violated precondition of an unsafe function.
Aborted == [err |-> FALSE, abort |-> TRUE, layout |-> Layout(0, 0), stride |-> 0]

\* Layout::repeat(n) of UnstableLayoutMethods: the set of its outcomes,
\* Err(LayoutErr) or Ok((layout, stride)). Where alloc_size is above
\* isize::MAX, Layout::from_size_align_unchecked is called outside its
\* contract, which is undefined behaviour: the call returns the layout, or
\* the process aborts on the precondition check.
repeat(layout, n) ==
    LET padded_size == checked_add(layout.size, padding_needed_for(layout, layout.align))
        alloc_size == checked_mul(padded_size, n)
        ok == LayoutOk(Layout(alloc_size, layout.align), padded_size)
    IN  IF padded_size = Nothing
        THEN {LayoutErr}
        ELSE IF alloc_size = Nothing
        THEN {LayoutErr}
        ELSE IF alloc_size > ISIZE_MAX - (layout.align - 1)
        THEN {ok, Aborted}
        ELSE {ok}

\* Layout::array::<T>(n), where Layout::new::<T>() is `layout`. The call
\* Layout::new::<T>().repeat(n) is a method call on Layout, which takes
\* Layout's own repeat before the trait's: the size is padded to the
\* alignment, multiplied with a check, and refused when it is above
\* isize::MAX once rounded up. The stride is dropped.
array(layout, n) ==
    LET padded_size == round_up_to(layout.size, layout.align)
        alloc_size == checked_mul(padded_size, n)
    IN  IF alloc_size = Nothing
        THEN LayoutErr
        ELSE IF alloc_size > ISIZE_MAX - (layout.align - 1)
        THEN LayoutErr
        ELSE LayoutOk(Layout(alloc_size, layout.align), 0)

\* ------------------------------------------------------------------------
\* Chunks.
\* ------------------------------------------------------------------------

default_chunk_layout == Layout(DEFAULT_CHUNK_SIZE_WITH_FOOTER, DEFAULT_CHUNK_ALIGN)

\* chunk_layout without the doubling of the old size.
chunk_layout_exact(old_size, requested) ==
    LET size == round_up_to((requested.size + FOOTER_SIZE) % (USIZE_MAX + 1),
                            DEFAULT_CHUNK_ALIGN)
    IN  Layout(size, Max(DEFAULT_CHUNK_ALIGN, requested.align))

\* chunk_layout that asks for the footer's alignment whatever the request's.
chunk_layout_footer_align(old_size, requested) ==
    LET old_doubled == old_size * 2
        size == IF old_doubled > USIZE_MAX
                THEN Nothing
                ELSE round_up_to(Max(Max(old_doubled, requested.size),
                                     (requested.size + FOOTER_SIZE) % (USIZE_MAX + 1)),
                                 DEFAULT_CHUNK_ALIGN)
    IN  Layout(size, DEFAULT_CHUNK_ALIGN)

\* chunk_layout that sizes the chunk by the wrapped sum of the requested
\* size and the footer's, without comparing it with the requested size.
chunk_layout_wrapping(old_size, requested) ==
    LET old_doubled == old_size * 2
        with_footer == (requested.size + FOOTER_SIZE) % (USIZE_MAX + 1)
        size == round_up_to(Max(old_doubled, with_footer), DEFAULT_CHUNK_ALIGN)
        align == Max(DEFAULT_CHUNK_ALIGN, requested.align)
    IN  IF old_doubled > USIZE_MAX \/ size = Nothing
        THEN Layout(Nothing, align)
        ELSE Layout(size, align)

\* layout_from_size_align(size, align): the layout, or one of size Nothing
\* where the size rounded up to align is above isize::MAX. With debug
\* assertions Layout::from_size_align(..).unwrap() panics there; without
\* them the layout is built unchecked and the system allocator serves no
\* such layout, so that new_chunk panics as out of memory. Either way the
\* caller gets no chunk.
layout_from_size_align(size, align) ==
    IF size > ISIZE_MAX - (align - 1)
    THEN Layout(Nothing, align)
    ELSE Layout(size, align)

\* The layout new_chunk asks the system allocator for when a request
\* `requested` does not fit a current chunk of `old_size` bytes; its size is
\* Nothing when the computation panics (checked_mul(2).unwrap(),
\* allocation_size_overflow, layout_from_size_align).
\* `requested.size() + size_of::<ChunkFooter>()` is a plain usize addition:
\* it wraps without debug assertions and panics with them, and where it
\* wraps the size is at least requested.size(), which is above isize::MAX.
chunk_layout(old_size, requested) ==
    LET old_doubled == old_size * 2
        footer_align == DEFAULT_CHUNK_ALIGN
        size_to_allocate == Max(old_doubled, requested.size)
        with_footer == (requested.size + FOOTER_SIZE) % (USIZE_MAX + 1)
        size == round_up_to(Max(size_to_allocate, with_footer), footer_align)
        align == Max(footer_align, requested.align)
    IN  IF old_doubled > USIZE_MAX \/ size = Nothing
        THEN Layout(Nothing, align)
        ELSE layout_from_size_align(size, align)

\* Address of the footer of a chunk at `data` with layout `layout`.
footer_of(data, layout) == data + layout.size - FOOTER_SIZE

\* The ChunkFooter new_chunk writes at the end of the region `data`.
new_chunk(layout, prev, data) ==
    [data |-> data,
     layout |-> layout,
     prev |-> prev,
     ptr |-> footer_of(data, layout),
     end_of_first_allocation |-> None]

\* The regions the system allocator may return for `layout` when its heap
\* ends at `top`: aligned to layout.align, above every region handed out
\* before, inside the address space.  Empty: the allocator returns null,
\* as it does for every size that is above isize::MAX once rounded up.
SysAlloc(top, layout) ==
    {d \in {AlignDown(top + g + layout.align - 1, layout.align) : g \in SysGaps} :
        /\ layout.size <= ISIZE_MAX - (layout.align - 1)
        /\ d + layout.size <= USIZE_MAX}

\* The regions the system allocator may return for `layout` below the
\* lowest region it has handed out, which starts at `bottom`: a system
\* allocator places a region wherever it has room.
SysAllocBelow(bottom, layout) ==
    {d \in {AlignDown(bottom - g - layout.size, layout.align) : g \in SysGaps} :
        /\ layout.size <= ISIZE_MAX - (layout.align - 1)
        /\ d > 0}

\* dealloc_chunk_list that stops at the chunk that has no prev, leaving it.
RECURSIVE dealloc_chunk_list_but_oldest(_, _)
dealloc_chunk_list_but_oldest(fs, footer) ==
    IF footer = None \/ fs[footer].prev = None
    THEN << >>
    ELSE <<[data |-> fs[footer].data, layout |-> fs[footer].layout]>>
             \o dealloc_chunk_list_but_oldest(fs, fs[footer].prev)

\* dealloc_chunk_list: the (data, layout) pairs passed to the system
\* allocator's dealloc, walking the prev chain from `footer`.
RECURSIVE dealloc_chunk_list(_, _)
dealloc_chunk_list(fs, footer) ==
    IF footer = None
    THEN << >>
    ELSE <<[data |-> fs[footer].data, layout |-> fs[footer].layout]>>
             \o dealloc_chunk_list(fs, fs[footer].prev)

\* The footers reachable from `footer` along prev.
RECURSIVE chain(_, _)
chain(fs, footer) ==
    IF footer = None THEN << >> ELSE <<footer>> \o chain(fs, fs[footer].prev)

\* ------------------------------------------------------------------------
\* The arena.  A Bump `b` is [footers, current_chunk_footer]; the operators
\* below return the Bump an operation leaves and what it returns.
\* ------------------------------------------------------------------------

Bump(fs, cur) == [footers |-> fs, current_chunk_footer |-> cur]

Cursor(b) == b.footers[b.current_chunk_footer].ptr

\* is_last_allocation that holds of every pointer from the cursor up to the
\* footer.
is_last_allocation_above(b, ptr) ==
    ptr # None /\ Cursor(b) <= ptr /\ ptr < b.current_chunk_footer

\* footer.ptr.get() == ptr, on the current chunk.
is_last_allocation(b, ptr) == Cursor(b) = ptr

\* try_alloc_layout_fast without the rounding of the pointer down to
\* layout.align().
try_alloc_layout_fast_unaligned(b, layout) ==
    LET cur == b.current_chunk_footer
        footer == b.footers[cur]
        initial_ptr == footer.ptr
        ptr == initial_ptr - layout.size
    IN  IF layout.size > initial_ptr \/ ptr < footer.data
        THEN [some |-> FALSE, p |-> None, bump |-> b]
        ELSE [some |-> TRUE,
              p |-> ptr,
              bump |-> Bump([b.footers EXCEPT
                               ![cur].end_of_first_allocation =
                                   IF initial_ptr = cur THEN ptr + layout.size ELSE @,
                               ![cur].ptr = ptr],
                            cur)]

\* try_alloc_layout_fast that records where the first allocation starts
\* as its end.
try_alloc_layout_fast_first_start(b, layout) ==
    LET cur == b.current_chunk_footer
        footer == b.footers[cur]
        initial_ptr == footer.ptr
        aligned_ptr == AlignDown(initial_ptr - layout.size, layout.align)
    IN  IF layout.size > initial_ptr \/ aligned_ptr < footer.data
        THEN [some |-> FALSE, p |-> None, bump |-> b]
        ELSE [some |-> TRUE,
              p |-> aligned_ptr,
              bump |-> Bump([b.footers EXCEPT
                               ![cur].end_of_first_allocation =
                                   IF initial_ptr = cur THEN aligned_ptr ELSE @,
                               ![cur].ptr = aligned_ptr],
                            cur)]

\* try_alloc_layout_fast without the test `aligned_ptr >= start`.
try_alloc_layout_fast_unbounded(b, layout) ==
    LET cur == b.current_chunk_footer
        footer == b.footers[cur]
        initial_ptr == footer.ptr
        aligned_ptr == AlignDown(initial_ptr - layout.size, layout.align)
    IN  IF layout.size > initial_ptr
        THEN [some |-> FALSE, p |-> None, bump |-> b]
        ELSE [some |-> TRUE,
              p |-> aligned_ptr,
              bump |-> Bump([b.footers EXCEPT
                               ![cur].end_of_first_allocation =
                                   IF initial_ptr = cur
                                   THEN aligned_ptr + layout.size
                                   ELSE @,
                               ![cur].ptr = aligned_ptr],
                            cur)]

\* try_alloc_layout_fast: [some, p, bump].
try_alloc_layout_fast(b, layout) ==
    LET cur == b.current_chunk_footer
        footer == b.footers[cur]
        initial_ptr == footer.ptr
        start == footer.data
        ptr == initial_ptr - layout.size
        aligned_ptr == AlignDown(ptr, layout.align)
    IN  IF layout.size > initial_ptr \/ aligned_ptr < start
        THEN [some |-> FALSE, p |-> None, bump |-> b]
        ELSE [some |-> TRUE,
              p |-> aligned_ptr,
              bump |-> Bump([b.footers EXCEPT
                               ![cur].end_of_first_allocation =
                                   IF initial_ptr = cur
                                   THEN aligned_ptr + layout.size
                                   ELSE @,
                               ![cur].ptr = aligned_ptr],
                            cur)]

\* alloc_layout_slow that does not record the end of the first allocation.
alloc_layout_slow_no_first_allocation(b, layout, data) ==
    LET current_footer == b.current_chunk_footer
        new_layout == chunk_layout(b.footers[current_footer].layout.size, layout)
        new_footer == footer_of(data, new_layout)
        chunk == new_chunk(new_layout, current_footer, data)
        ptr == AlignDown((chunk.ptr - layout.size) % (USIZE_MAX + 1), layout.align)
    IN  [some |-> TRUE,
         p |-> ptr,
         bump |-> Bump((new_footer :> [chunk EXCEPT !.ptr = ptr]) @@ b.footers,
                       new_footer)]

\* alloc_layout_slow that does not round the pointer down to the alignment.
alloc_layout_slow_unaligned(b, layout, data) ==
    LET current_footer == b.current_chunk_footer
        new_layout == chunk_layout(b.footers[current_footer].layout.size, layout)
        new_footer == footer_of(data, new_layout)
        chunk == new_chunk(new_layout, current_footer, data)
        ptr == (chunk.ptr - layout.size) % (USIZE_MAX + 1)
    IN  [some |-> TRUE,
         p |-> ptr,
         bump |-> Bump((new_footer :> [chunk EXCEPT
                                         !.end_of_first_allocation = ptr + layout.size,
                                         !.ptr = ptr])
                         @@ b.footers,
                       new_footer)]

\* alloc_layout_slow, given the region `data` the system allocator returned
\* for chunk_layout(current size, layout): [some, p, bump].
alloc_layout_slow(b, layout, data) ==
    LET current_footer == b.current_chunk_footer
        current_layout == b.footers[current_footer].layout
        new_layout == chunk_layout(current_layout.size, layout)
        new_footer == footer_of(data, new_layout)
        chunk == new_chunk(new_layout, current_footer, data)
        ptr == AlignDown((chunk.ptr - layout.size) % (USIZE_MAX + 1), layout.align)
    IN  [some |-> TRUE,
         p |-> ptr,
         bump |-> Bump((new_footer :> [chunk EXCEPT
                                         !.end_of_first_allocation = ptr + layout.size,
                                         !.ptr = ptr])
                         @@ b.footers,
                       new_footer)]

\* The result of an operation that panicked (out of memory, size overflow)
\* before changing the arena.
Panicked(b) == [some |-> FALSE, p |-> None, bump |-> b]

\* Whether alloc_layout(layout) needs a region from the system allocator.
needs_chunk(b, layout) == ~ try_alloc_layout_fast(b, layout).some

\* alloc_layout that, when the system allocator returns null, has already
\* given up the rest of the current chunk.
alloc_layout_gives_up_chunk(b, layout, data) ==
    LET fast == try_alloc_layout_fast(b, layout)
        cur == b.current_chunk_footer
    IN  IF fast.some THEN fast
        ELSE IF data = None
        THEN [some |-> FALSE, p |-> None,
              bump |-> Bump([b.footers EXCEPT ![cur].ptr = b.footers[cur].data], cur)]
        ELSE alloc_layout_slow(b, layout, data)

\* alloc_layout: the fast path, else the slow path on `data` (None when the
\* chunk size overflowed or the system allocator returned null).
alloc_layout(b, layout, data) ==
    LET fast == try_alloc_layout_fast(b, layout)
    IN  IF fast.some THEN fast
        ELSE IF data = None THEN Panicked(b)
        ELSE alloc_layout_slow(b, layout, data)

\* try_alloc_layout that never takes the slow path.
try_alloc_layout_fast_only(b, layout, data) ==
    LET fast == try_alloc_layout_fast(b, layout)
    IN  IF fast.some THEN fast ELSE [some |-> FALSE, p |-> None, bump |-> b]

\* try_alloc_layout: alloc_layout that returns an error, leaving the arena
\* as it was, where alloc_layout panics in oom(): when the system allocator
\* returns null for the chunk of the slow path.
try_alloc_layout(b, layout, data) ==
    LET fast == try_alloc_layout_fast(b, layout)
    IN  IF fast.some THEN fast
        ELSE IF data = None
        THEN [some |-> FALSE, p |-> None, bump |-> b]
        ELSE alloc_layout_slow(b, layout, data)

\* dealloc that never reclaims.
dealloc_leaks(b, ptr, layout) == b

\* dealloc that reclaims without asking whether ptr is the last allocation.
dealloc_any(b, ptr, layout) ==
    Bump([b.footers EXCEPT ![b.current_chunk_footer].ptr = ptr + layout.size],
         b.current_chunk_footer)

\* dealloc that also reclaims the padding above the block, up to its
\* alignment.
dealloc_reclaims_padding(b, ptr, layout) ==
    IF is_last_allocation(b, ptr)
    THEN Bump([b.footers EXCEPT
                 ![b.current_chunk_footer].ptr =
                     AlignDown(ptr + layout.size + (layout.align - 1), layout.align)],
              b.current_chunk_footer)
    ELSE b

\* dealloc that takes the chunk to be empty once its last allocation goes.
dealloc_empties_chunk(b, ptr, layout) ==
    IF is_last_allocation(b, ptr)
    THEN Bump([b.footers EXCEPT ![b.current_chunk_footer].ptr = b.current_chunk_footer],
              b.current_chunk_footer)
    ELSE b

\* <&Bump as Alloc>::dealloc
dealloc(b, ptr, layout) ==
    IF is_last_allocation(b, ptr)
    THEN Bump([b.footers EXCEPT ![b.current_chunk_footer].ptr = ptr + layout.size],
              b.current_chunk_footer)
    ELSE b

\* reset that leaves end_of_first_allocation as it was.
reset_keeps_first_allocation(b) ==
    LET cur_chunk == b.current_chunk_footer
    IN  [bump |-> Bump(cur_chunk :> [b.footers[cur_chunk] EXCEPT
                                       !.prev = None, !.ptr = cur_chunk],
                       cur_chunk),
         released |-> dealloc_chunk_list(b.footers, b.footers[cur_chunk].prev)]

\* reset that releases the previous chunk only and keeps the older ones
\* linked.
reset_one_chunk(b) ==
    LET cur_chunk == b.current_chunk_footer
        prev_chunk == b.footers[cur_chunk].prev
    IN  IF prev_chunk = None
        THEN [bump |-> Bump([b.footers EXCEPT
                               ![cur_chunk].ptr = cur_chunk,
                               ![cur_chunk].end_of_first_allocation = None],
                            cur_chunk),
              released |-> << >>]
        ELSE [bump |-> Bump([f \in DOMAIN b.footers \ {prev_chunk} |->
                               IF f = cur_chunk
                               THEN [b.footers[f] EXCEPT
                                       !.prev = b.footers[prev_chunk].prev,
                                       !.ptr = cur_chunk,
                                       !.end_of_first_allocation = None]
                               ELSE b.footers[f]],
                            cur_chunk),
              released |-> <<[data |-> b.footers[prev_chunk].data,
                              layout |-> b.footers[prev_chunk].layout]>>]

\* Bump::reset: [bump, released].
reset(b) ==
    LET cur_chunk == b.current_chunk_footer
        prev_chunk == b.footers[cur_chunk].prev
    IN  [bump |-> Bump(cur_chunk :> [b.footers[cur_chunk] EXCEPT
                                       !.prev = None,
                                       !.ptr = cur_chunk,
                                       !.end_of_first_allocation = None],
                       cur_chunk),
         released |-> dealloc_chunk_list(b.footers, prev_chunk)]

\* ChunkIter that goes on past a chunk nothing was allocated in, yielding
\* its whole range.
RECURSIVE ChunkIter_all(_, _)
ChunkIter_all(fs, footer) ==
    IF footer = None
    THEN << >>
    ELSE <<[ptr |-> fs[footer].ptr, len |-> footer - fs[footer].ptr]>>
            \o ChunkIter_all(fs, fs[footer].prev)

\* ChunkIter that yields each chunk as consumed from its cursor to its
\* footer.
RECURSIVE ChunkIter_to_footer(_, _)
ChunkIter_to_footer(fs, footer) ==
    IF footer = None \/ fs[footer].end_of_first_allocation = None
    THEN << >>
    ELSE <<[ptr |-> fs[footer].ptr, len |-> footer - fs[footer].ptr]>>
            \o ChunkIter_to_footer(fs, fs[footer].prev)

\* The slices [ptr, len] a ChunkIter starting at `footer` yields until its
\* next() first returns None: one per chunk along prev, from the chunk's
\* cursor to the end of its first allocation, stopping at a chunk that has
\* no first allocation.
RECURSIVE ChunkIter(_, _)
ChunkIter(fs, footer) ==
    IF footer = None
    THEN << >>
    ELSE LET foot == fs[footer]
         IN  IF foot.end_of_first_allocation # None
             THEN <<[ptr |-> foot.ptr, len |-> foot.end_of_first_allocation - foot.ptr]>>
                     \o ChunkIter(fs, foot.prev)
             ELSE << >>

\* Bump::iter_allocated_chunks
iter_allocated_chunks(b) == ChunkIter(b.footers, b.current_chunk_footer)

\* Bump::each_allocated_chunk: the slices the callback is called with.
each_allocated_chunk(b) == iter_allocated_chunks(b)

\* ------------------------------------------------------------------------
\* Memory: a map from the addresses a client has defined to their bytes.
\* ------------------------------------------------------------------------

Read(m, a) == IF a \in DOMAIN m THEN m[a] ELSE Uninit

\* The bytes of [ptr, ptr + n).
Bytes(m, ptr, n) == [i \in 0 .. n - 1 |-> Read(m, ptr + i)]

\* copy with source and destination exchanged.
copy_reversed(m, src, dst, count) ==
    LET defined == {a \in DOMAIN m : a >= dst /\ a < dst + count}
        kept == {a \in DOMAIN m : a < src \/ a >= src + count}
    IN  [a \in kept \cup {src + (x - dst) : x \in defined} |->
            IF a >= src /\ a < src + count THEN m[dst + (a - src)] ELSE m[a]]

\* ptr::copy / ptr::copy_nonoverlapping of `count` bytes from src to dst
\* (both read the source range before any byte is written).
copy(m, src, dst, count) ==
    LET defined == {a \in DOMAIN m : a >= src /\ a < src + count}
        kept == {a \in DOMAIN m : a < dst \/ a >= dst + count}
    IN  [a \in kept \cup {dst + (x - src) : x \in defined} |->
            IF a >= dst /\ a < dst + count THEN m[src + (a - dst)] ELSE m[a]]

\* The byte a client stores at offset i of the value of block `id`.
ByteOf(id, i) == id * 16 + (i % 16)

\* ptr::write(p, val) for the value of block `id`, `size` bytes long.
write(m, p, size, id) ==
    [a \in DOMAIN m \cup (p .. p + size - 1) |->
        IF a >= p /\ a < p + size THEN ByteOf(id, a - p) ELSE m[a]]

\* realloc_shrink that moves the cursor without copying the bytes.
realloc_shrink_no_copy(b, m, ptr, layout, new_size) ==
    LET delta == layout.size - new_size
        cur == b.current_chunk_footer
        new_ptr == b.footers[cur].ptr + delta
    IN  IF is_last_allocation(b, ptr) /\ new_size <= layout.size \div 2
        THEN [some |-> TRUE,
              p |-> new_ptr,
              bump |-> Bump([b.footers EXCEPT ![cur].ptr = new_ptr], cur),
              mem |-> m, died |-> FALSE]
        ELSE [some |-> TRUE, p |-> ptr, bump |-> b, mem |-> m, died |-> FALSE]

\* realloc_shrink that moves a tail block however little it shrinks.
realloc_shrink_eager(b, m, ptr, layout, new_size) ==
    LET delta == layout.size - new_size
        cur == b.current_chunk_footer
        new_ptr == b.footers[cur].ptr + delta
    IN  IF is_last_allocation(b, ptr)
        THEN [some |-> TRUE,
              p |-> new_ptr,
              bump |-> Bump([b.footers EXCEPT ![cur].ptr = new_ptr], cur),
              mem |-> copy(m, ptr, new_ptr, new_size),
              died |-> FALSE]
        ELSE [some |-> TRUE, p |-> ptr, bump |-> b, mem |-> m, died |-> FALSE]

\* Byte i (from 0) of the value v of an integer type, least significant
\* first.
ByteAt(v, i) == (v \div (256 ^ i)) % 256

\* The value of the `elem` bytes at p.
RECURSIVE ValueAt(_, _, _)
ValueAt(m, p, elem) ==
    IF elem = 0 THEN 0 ELSE Read(m, p) + 256 * ValueAt(m, p + 1, elem - 1)

\* The slice of `len` elements of `elem` bytes at p
\* (slice::from_raw_parts_mut).
from_raw_parts(m, p, len, elem) == [i \in 1 .. len |-> ValueAt(m, p + (i - 1) * elem, elem)]

\* copy_nonoverlapping(src.as_ptr(), dst, src.len()) for a slice `src` that
\* lies outside the arena: src.len() elements of `elem` bytes each.
copy_slice(m, src, dst, elem) ==
    [a \in DOMAIN m \cup (dst .. dst + Len(src) * elem - 1) |->
        IF a >= dst /\ a < dst + Len(src) * elem
        THEN ByteAt(src[((a - dst) \div elem) + 1], (a - dst) % elem)
        ELSE m[a]]

\* alloc_slice_copy that copies src.len() bytes, not elements.
alloc_slice_copy_bytes(b, m, src, elem, data) ==
    LET layout == Layout(Len(src) * elem, elem)
        r == alloc_layout(b, layout, data)
    IN  IF r.some
        THEN [some |-> TRUE, p |-> r.p, len |-> Len(src), bump |-> r.bump,
              mem |-> [a \in DOMAIN m \cup (r.p .. r.p + Len(src) - 1) |->
                         IF a >= r.p /\ a < r.p + Len(src)
                         THEN ByteAt(src[((a - r.p) \div elem) + 1], (a - r.p) % elem)
                         ELSE m[a]]]
        ELSE [some |-> FALSE, p |-> None, len |-> 0, bump |-> b, mem |-> m]

\* Bump::alloc_slice_copy(src) for a slice of elements of `elem` bytes:
\* [some, p, len, bump, mem], the slice returned being (p, len).
alloc_slice_copy(b, m, src, elem, data) ==
    LET layout == Layout(Len(src) * elem, elem)
        r == alloc_layout(b, layout, data)
    IN  IF r.some
        THEN [some |-> TRUE, p |-> r.p, len |-> Len(src), bump |-> r.bump,
              mem |-> copy_slice(m, src, r.p, elem)]
        ELSE [some |-> FALSE, p |-> None, len |-> 0, bump |-> b, mem |-> m]

\* NonNull::<T>::dangling(): the alignment of T as an address.
dangling(align) == align

\* ptr::write_bytes(p, val, count)
write_bytes(m, p, val, count) ==
    [a \in DOMAIN m \cup (p .. p + count - 1) |->
        IF a >= p /\ a < p + count THEN val ELSE m[a]]

\* Layout::array::<T>(len) of core, for a T of layout `elem`: an error where
\* the size is above isize::MAX less the alignment's padding.
Layout_array(elem, len) ==
    IF elem.size # 0 /\ len > (ISIZE_MAX - (elem.align - 1)) \div elem.size
    THEN LayoutErr
    ELSE LayoutOk(Layout(elem.size * len, elem.align), elem.size)

\* What a zeroed allocation returned: the pointer, the arena and the bytes.
Zeroed(some, p, len, b, m) == [some |-> some, p |-> p, len |-> len, bump |-> b, mem |-> m]

\* Bump::alloc_zeroed::<T>() for a T of `layout`: a zero-sized T gets the
\* dangling pointer and the arena is left alone.
alloc_zeroed(b, m, layout, data) ==
    IF layout.size = 0
    THEN Zeroed(TRUE, dangling(layout.align), 0, b, m)
    ELSE LET r == alloc_layout(b, layout, data)
         IN  IF r.some
             THEN Zeroed(TRUE, r.p, 0, r.bump, write_bytes(m, r.p, 0, layout.size))
             ELSE Zeroed(FALSE, None, 0, b, m)

\* Bump::alloc_slice_zeroed::<T>(len) for a T of layout `elem`: an empty
\* slice and a slice of a zero-sized T are at the dangling pointer, and
\* Layout::array(len).unwrap() panics on its error.
alloc_slice_zeroed(b, m, elem, len, data) ==
    IF len = 0
    THEN Zeroed(TRUE, dangling(elem.align), 0, b, m)
    ELSE IF elem.size = 0
    THEN Zeroed(TRUE, dangling(elem.align), len, b, m)
    ELSE LET l == Layout_array(elem, len)
         IN  IF l.err
             THEN Zeroed(FALSE, None, 0, b, m)
             ELSE LET r == alloc_layout(b, l.layout, data)
                  IN  IF r.some
                      THEN Zeroed(TRUE, r.p, len, r.bump,
                                  write_bytes(m, r.p, 0, l.layout.size))
                      ELSE Zeroed(FALSE, None, 0, b, m)

\* The shrinking half of realloc (new_size <= old_size): [some, p, bump, mem].
realloc_shrink(b, m, ptr, layout, new_size) ==
    LET old_size == layout.size
        delta == old_size - new_size
        cur == b.current_chunk_footer
        new_ptr == b.footers[cur].ptr + delta
    IN  IF is_last_allocation(b, ptr) /\ new_size <= old_size \div 2
        THEN [some |-> TRUE,
              p |-> new_ptr,
              bump |-> Bump([b.footers EXCEPT ![cur].ptr = new_ptr], cur),
              mem |-> copy(m, ptr, new_ptr, new_size),
              died |-> FALSE]
        ELSE [some |-> TRUE, p |-> ptr, bump |-> b, mem |-> m, died |-> FALSE]

\* grows_in_place without the test that ptr is the last allocation.
grows_in_place_any(b, ptr, layout, new_size) ==
    try_alloc_layout_fast(b, Layout(new_size - layout.size, layout.align)).some

\* grows_in_place that never extends a block.
grows_in_place_never(b, ptr, layout, new_size) == FALSE

\* Whether the growing half of realloc extends the block in place.
grows_in_place(b, ptr, layout, new_size) ==
    /\ is_last_allocation(b, ptr)
    /\ try_alloc_layout_fast(b, Layout(new_size - layout.size, layout.align)).some

\* realloc_grow that extends every block downwards where it lies.
realloc_grow_always_in_place(b, m, ptr, layout, new_size, data, fault) ==
    [some |-> TRUE,
     p |-> ptr - (new_size - layout.size),
     bump |-> b,
     mem |-> copy(m, ptr, ptr - (new_size - layout.size), layout.size),
     died |-> FALSE]

\* realloc_grow whose in-place path returns ptr - delta as it is.
realloc_grow_unaligned(b, m, ptr, layout, new_size, data, fault) ==
    LET old_size == layout.size
        delta == new_size - old_size
        cur == b.current_chunk_footer
        fresh == alloc_layout(b, Layout(new_size, layout.align), data)
    IN  IF grows_in_place(b, ptr, layout, new_size)
        THEN [some |-> TRUE,
              p |-> ptr - delta,
              bump |-> Bump([b.footers EXCEPT ![cur].ptr = ptr - delta], cur),
              mem |-> copy(m, ptr, ptr - delta, new_size),
              died |-> FALSE]
        ELSE IF fresh.some
        THEN [some |-> TRUE,
              p |-> fresh.p,
              bump |-> fresh.bump,
              mem |-> copy(m, ptr, fresh.p, old_size),
              died |-> FALSE]
        ELSE [some |-> FALSE, p |-> None, bump |-> b, mem |-> m, died |-> FALSE]

\* The number of bytes the copy of a growing realloc reads from ptr:
\* ptr::copy(ptr, p, new_size) where the block grows in place,
\* ptr::copy_nonoverlapping(ptr, new_ptr, old_size) where it moves.
grow_copy_count(b, ptr, layout, new_size) ==
    IF grows_in_place(b, ptr, layout, new_size) THEN new_size ELSE layout.size

\* Whether the copy of a growing realloc reads beyond the end of the memory
\* of the current chunk (the end of its footer): the bytes there belong to
\* another region of the system allocator or to none.
reads_past_chunk(b, ptr, layout, new_size) ==
    LET f == b.footers[b.current_chunk_footer]
    IN  ptr + grow_copy_count(b, ptr, layout, new_size) > f.data + f.layout.size

\* What the read of a growing realloc can do: FALSE where the copy
\* completes, TRUE where the read of memory outside the chunk ends the
\* process (SIGSEGV). A read inside the chunk always completes.
Faults(b, ptr, layout, new_size) ==
    IF new_size > layout.size /\ reads_past_chunk(b, ptr, layout, new_size)
    THEN {FALSE, TRUE}
    ELSE {FALSE}

\* The growing half of realloc (new_size > old_size): [some, p, bump, mem,
\* died]. Where the block grows in place the cursor is moved before the
\* copy, and `fault` tells whether the copy's read ends the process.
realloc_grow(b, m, ptr, layout, new_size, data, fault) ==
    LET old_size == layout.size
        delta == new_size - old_size
        count == grow_copy_count(b, ptr, layout, new_size)
        inplace == try_alloc_layout_fast(b, Layout(delta, layout.align))
        fresh == alloc_layout(b, Layout(new_size, layout.align), data)
    IN  IF grows_in_place(b, ptr, layout, new_size)
        THEN IF fault
             THEN [some |-> FALSE, p |-> None, bump |-> inplace.bump, mem |-> m,
                   died |-> TRUE]
             ELSE [some |-> TRUE,
                   p |-> inplace.p,
                   bump |-> inplace.bump,
                   mem |-> copy(m, ptr, inplace.p, count),
                   died |-> FALSE]
        ELSE IF fresh.some
        THEN [some |-> TRUE,
              p |-> fresh.p,
              bump |-> fresh.bump,
              mem |-> copy(m, ptr, fresh.p, count),
              died |-> FALSE]
        ELSE [some |-> FALSE, p |-> None, bump |-> b, mem |-> m, died |-> FALSE]

\* <&Bump as Alloc>::realloc
realloc(b, m, ptr, layout, new_size, data, fault) ==
    IF new_size <= layout.size
    THEN realloc_shrink(b, m, ptr, layout, new_size)
    ELSE realloc_grow(b, m, ptr, layout, new_size, data, fault)

\* The number of bytes realloc(ptr, layout, new_size) copies: new_size where
\* a tail block shrinks to half or less, none where a shrinking block stays,
\* and the count of the growing half otherwise.
realloc_copy_count(b, ptr, layout, new_size) ==
    IF new_size > layout.size THEN grow_copy_count(b, ptr, layout, new_size)
    ELSE IF is_last_allocation(b, ptr) /\ new_size <= layout.size \div 2 THEN new_size
    ELSE 0

\* Whether realloc(ptr, layout, new_size) needs a region from the system
\* allocator, and the layout alloc_layout_slow asks it for.
realloc_needs_chunk(b, ptr, layout, new_size) ==
    /\ new_size > layout.size
    /\ ~ grows_in_place(b, ptr, layout, new_size)
    /\ needs_chunk(b, Layout(new_size, layout.align))

\* ------------------------------------------------------------------------
\* State.
\* ------------------------------------------------------------------------

VARIABLES
    bump,        \* the arena: [footers, current_chunk_footer]
    heap_top,    \* end of the regions the system allocator has handed out
    acquired,    \* the (data, layout) of every region obtained from it
    released,    \* the (data, layout) of every region returned to it
    mem,         \* the bytes clients have defined
    live,        \* the blocks the client holds: [id, ptr, layout, via, filled]
    next_id,     \* identity of the next block
    nops,        \* operations performed
    last,        \* the last operation: its arguments and what it returned
    prev_op,     \* the operation before it
    pre,         \* the arena, memory and release count before the last operation
    since_reset, \* what has been allocated since the last reset
    allocated_into, \* the chunks an allocation was served from since they
                    \* were acquired or reset
    only_allocs, \* no dealloc or realloc since construction or the last reset
    requested,   \* the capacity with_capacity was called with, or Nothing
    arg,         \* the slice the last operation was given to copy, or << >>
    placed,      \* the ids of the live blocks, in the order they were placed
    returning_null,   \* whether the system allocator answers null
    computed,    \* the last call of a Layout method: its inputs and its result
    drop_list,   \* the arena's drop list: the links of its head and of every
                 \* entry, and what has happened to the entries
    calling      \* the calls of alloc_with and alloc_slice_clone that are
                 \* inside the caller's closure or clone, innermost last

vars == <<bump, heap_top, acquired, released, mem, live, next_id, nops,
          last, prev_op, pre, since_reset, allocated_into, only_allocs, requested,
          arg, placed, returning_null, computed, drop_list,
          calling>>

\* The record of an operation: the block it was called on (id, ptr, layout,
\* via: how the client got the block), new_size for realloc, whether it
\* returned (ok) and what (ret), whether ptr was the tail when it was called,
\* whether it acquired a chunk (slow), the cursor it started from, and
\* whether the system allocator was answering null.
Op(name, blk, new_size, ok, ret, slow) ==
    [op |-> name, id |-> blk.id, ptr |-> blk.ptr, layout |-> blk.layout,
     via |-> blk.via, new_size |-> new_size, ok |-> ok, ret |-> ret,
     tail |-> is_last_allocation(bump, blk.ptr), slow |-> slow,
     cursor0 |-> Cursor(bump), null |-> returning_null, died |-> FALSE]

NoBlock == [id |-> 0, ptr |-> None, layout |-> Layout(0, 1), via |-> "none", filled |-> 0]

NoOp ==
    [op |-> "none", id |-> 0, ptr |-> None, layout |-> Layout(0, 1), via |-> "none",
     new_size |-> 0, ok |-> TRUE, ret |-> None, tail |-> FALSE, slow |-> FALSE,
     cursor0 |-> None, null |-> FALSE, died |-> FALSE]

Snapshot ==
    [bump |-> bump, mem |-> mem, released |-> Len(released), acquired |-> Len(acquired)]

\* The sequence s without the element e.
Without(s, e) == SelectSeq(s, LAMBDA x : x # e)

Block(id, ptr, layout, via, filled) ==
    [id |-> id, ptr |-> ptr, layout |-> layout, via |-> via, filled |-> filled]

ChunkCapacity(b) == b.footers[b.current_chunk_footer].layout.size - FOOTER_SIZE

\* with_capacity that leaves no room for the chunk's footer.
with_capacity_unpadded(capacity) ==
    Layout(round_up_to(Max(DEFAULT_CHUNK_SIZE_WITH_FOOTER * 2, capacity),
                       DEFAULT_CHUNK_ALIGN),
           DEFAULT_CHUNK_ALIGN)

\* with_capacity that takes twice the first chunk's size for the old size.
with_capacity_doubled(capacity) ==
    chunk_layout(DEFAULT_CHUNK_SIZE_WITH_FOOTER * 2, Layout(capacity, 1))

\* The chunk layout Bump::with_capacity(capacity) asks new_chunk for.
with_capacity(capacity) ==
    chunk_layout(DEFAULT_CHUNK_SIZE_WITH_FOOTER, Layout(capacity, 1))

\* ------------------------------------------------------------------------
\* The drop list (drop.rs).
\* ------------------------------------------------------------------------

\* The entries' links are 1..MaxEntries, the list's own link is ListHead.
Entries == 1..MaxEntries

ListHead == MaxEntries + 1

\* Link { prev, next }
Link(prev, next) == [prev |-> prev, next |-> next]

\* Link::default() for the list and for every entry.
DefaultLinks == [l \in Entries \cup {ListHead} |-> Link(None, None)]

\* DropList::init
init(link) == [link EXCEPT ![ListHead] = Link(ListHead, ListHead)]

\* What a call on the links did: the links it left, and whether it returned
\* or panicked on an unwrap of None.
Returned(link) == [link |-> link, panicked |-> FALSE]

Unwound(link) == [link |-> link, panicked |-> TRUE]

\* insert_after that leaves the old successor's prev alone.
insert_after_forward_only(link, tail, node_ptr) ==
    LET l1 == [link EXCEPT ![node_ptr] = Link(tail, link[tail].next)]
    IN  IF l1[tail].next = None
        THEN Unwound(l1)
        ELSE Returned([l1 EXCEPT ![tail].next = node_ptr])

\* insert_after(tail, node_ptr): the node's prev and next are set, then
\* tail.next.get().unwrap() panics where the tail has no next.
insert_after(link, tail, node_ptr) ==
    LET l1 == [link EXCEPT ![node_ptr] = Link(tail, link[tail].next)]
    IN  IF l1[tail].next = None
        THEN Unwound(l1)
        ELSE LET l2 == [l1 EXCEPT ![l1[tail].next].prev = node_ptr]
             IN  Returned([l2 EXCEPT ![tail].next = node_ptr])

\* DropList::insert(node)
insert(link, node) == insert_after(link, ListHead, node)

\* Link::unlink: prev.take() returns where there is no prev; next.take()
\* .unwrap() panics where there is a prev and no next, the node cleared.
unlink(link, self) ==
    IF link[self].prev = None
    THEN Returned(link)
    ELSE LET prev == link[self].prev
             next == link[self].next
             l1 == [link EXCEPT ![self] = Link(None, None)]
         IN  IF next = None
             THEN Unwound(l1)
             ELSE LET l2 == [l1 EXCEPT ![prev].next = next]
                  IN  Returned([l2 EXCEPT ![next].prev = prev])

\* The calls made on the drop list outside the discipline of its one
\* caller: before init, init again, insert of an entry that is linked, and
\* every call after one of these.
MaxMisuse == 2

\* The alignments of the types whose values are pinned.
EntryAligns == {8, 16}

\* The offset of `data` in DropEntry<T>, which is repr(C): the link and
\* drop_fn take 24 bytes, and data follows at the next multiple of T's
\* alignment. DropEntry<()> has it at 24.
data_offset(align) == round_up_to(24, align)

\* The last call on the list: its name, the entry it was given, and whether
\* it panicked.
ListCall(op, node, panicked) == [op |-> op, node |-> node, panicked |-> panicked]

\* DropList::default() and no entry allocated. `box` is what became of each
\* entry's Box (held by the program, forgotten, dropped, or given to the
\* value of the entry `owner`, of which it is a field), `align` the
\* alignment of its value's type, `dropped` how often its value's
\* destructor ran, `stray` the entries for which a destructor ran on bytes
\* that are not the value, `order` the entries inserted and not unlinked,
\* the last inserted last, `call` the last call and `before` the links it
\* found, `walk` where run_drop is. `phase` is "default" until the first
\* call, "inited" while init was the first call and every insert since was of
\* an entry that is not linked, "relinked" once an entry was inserted that
\* was linked, and "other" after any other sequence of calls; `misused`
\* counts the calls that left it other than "inited".
NoEntries ==
    [link |-> DefaultLinks,
     box |-> [e \in Entries |-> "none"],
     owner |-> [e \in Entries |-> None],
     align |-> [e \in Entries |-> 8],
     dropped |-> [e \in Entries |-> 0],
     stray |-> {},
     order |-> << >>,
     call |-> ListCall("default", None, FALSE),
     before |-> DefaultLinks,
     walk |-> [state |-> "idle", curr |-> None],
     phase |-> "default",
     misused |-> 0]

\* The entries whose Box is a field of the value of entry k. A Box that was
\* dropped with the value stays in the field, and is dropped again with it.
Owned(dl, k) == {e \in Entries : dl.box[e] \in {"given", "dropped"} /\ dl.owner[e] = k}

\* drop_in_place of the value of entry k: its destructor runs, then its
\* fields are dropped, the boxes it owns among them. Dropping a Box drops
\* its value in place and unlinks its entry.
RECURSIVE drop_in_place(_, _)
RECURSIVE drop_boxes(_, _)
drop_in_place(dl, k) ==
    drop_boxes([dl EXCEPT !.dropped[k] = @ + 1], Owned(dl, k))

drop_boxes(dl, boxes) ==
    IF boxes = {}
    THEN dl
    ELSE LET b == CHOOSE x \in boxes : \A y \in boxes : x <= y
             d == drop_in_place(dl, b)
             u == unlink(d.link, b)
         IN  drop_boxes([d EXCEPT !.link = u.link,
                                  !.box[b] = "dropped",
                                  !.order = Without(d.order, b),
                                  !.call.panicked = @ \/ u.panicked],
                        boxes \ {b})

\* The record of a call of a Layout method on `layout`: its other argument
\* (an alignment or a count) and what it returned.
Call(name, layout, x, ret) == [fn |-> name, layout |-> layout, x |-> x, ret |-> ret]

NoCall == Call("none", Layout(0, 1), 0, 0)

\* A newly constructed arena: one chunk of `layout`, wherever the system
\* allocator put it.
Constructed(layout, capacity) ==
    /\ \E data \in SysAlloc(4096, layout) :
          /\ bump = Bump(footer_of(data, layout) :> new_chunk(layout, None, data),
                         footer_of(data, layout))
          /\ heap_top = data + layout.size
          /\ acquired = <<[data |-> data, layout |-> layout]>>
    /\ released = << >>
    /\ mem = << >>
    /\ live = {}
    /\ next_id = 1
    /\ nops = 0
    /\ last = NoOp
    /\ prev_op = NoOp
    /\ pre = [bump |-> bump, mem |-> << >>, released |-> 0, acquired |-> 1]
    /\ since_reset = [active |-> FALSE, total |-> 0, chunks |-> 0, capacity |-> 0]
    /\ allocated_into = {}
    /\ only_allocs = TRUE
    /\ requested = capacity
    /\ arg = << >>
    /\ placed = << >>
    /\ returning_null = FALSE
    /\ computed = NoCall
    /\ drop_list = NoEntries
    /\ calling = << >>

\* Bump::new()
Init == Constructed(default_chunk_layout, Nothing)

\* Bump::with_capacity(capacity)
InitCap == \E capacity \in Capacities : Constructed(with_capacity(capacity), capacity)

\* Regions over a system allocator that never answers null.
Regions_never_null(layout) ==
    LET cl == chunk_layout(bump.footers[bump.current_chunk_footer].layout.size, layout)
    IN  IF \/ ~ needs_chunk(bump, layout)
           \/ cl.size = Nothing
           \/ SysAlloc(heap_top, cl) = {}
        THEN {None}
        ELSE SysAlloc(heap_top, cl)

\* The regions the system allocator may return to an alloc_layout(layout)
\* that takes the slow path; {None} when none is asked for or none is given.
Regions(layout) ==
    LET cl == chunk_layout(bump.footers[bump.current_chunk_footer].layout.size, layout)
    IN  IF \/ ~ needs_chunk(bump, layout)
           \/ cl.size = Nothing
           \/ returning_null
           \/ SysAlloc(heap_top, cl) = {}
        THEN {None}
        ELSE SysAlloc(heap_top, cl)

\* The regions of Regions(layout), and those below every region handed out.
RegionsAnywhere(layout) ==
    LET cl == chunk_layout(bump.footers[bump.current_chunk_footer].layout.size, layout)
        datas == {acquired[i].data : i \in 1 .. Len(acquired)}
        bottom == CHOOSE d \in datas : \A e \in datas : d <= e
    IN  IF Regions(layout) = {None}
        THEN {None}
        ELSE Regions(layout) \cup SysAllocBelow(bottom, cl)

\* What an operation that ended with the arena `b` did to the system heap.
Heap(b) ==
    IF b.current_chunk_footer = bump.current_chunk_footer
    THEN UNCHANGED <<heap_top, acquired>>
    ELSE LET f == b.footers[b.current_chunk_footer]
         IN  /\ heap_top' = Max(heap_top, f.data + f.layout.size)
             /\ acquired' = Append(acquired, [data |-> f.data, layout |-> f.layout])

\* The arena has not been dropped.
Alive == last.op # "drop"

\* The process is running, no read has ended it, and it has an arena to call.
Running == ~ last.died /\ Alive

StepUpTo(n, a) ==
    /\ Running
    /\ nops < n
    /\ nops' = nops + 1
    /\ prev_op' = last
    /\ pre' = Snapshot
    /\ arg' = a
    /\ UNCHANGED <<returning_null, computed, drop_list, calling>>

StepWith(a) == StepUpTo(MaxOps, a)

Step == StepWith(<< >>)

\* alloc_layout(layout), followed when `fill` by the write of the value:
\* Bump::alloc(val), which is alloc_with called with `|| val`, a closure that
\* neither panics nor calls the arena.
DoAllocOf(results, name, layout, fill, ops, blocks) ==
    /\ StepUpTo(ops, << >>)
    /\ Cardinality(live) < blocks
    /\ \E r \in results :
          LET slow == r.bump.current_chunk_footer # bump.current_chunk_footer
          IN  /\ bump' = r.bump
              /\ Heap(r.bump)
              /\ last' = Op(name, [NoBlock EXCEPT !.id = next_id, !.layout = layout],
                            0, r.some, r.p, slow)
              /\ IF r.some
                 THEN /\ live' = live \cup
                           {Block(next_id, r.p, layout, "alloc",
                                  IF fill THEN layout.size ELSE 0)}
                      /\ mem' = IF fill THEN write(mem, r.p, layout.size, next_id) ELSE mem
                      /\ next_id' = next_id + 1
                      /\ placed' = Append(placed, next_id)
                 ELSE UNCHANGED <<live, mem, next_id, placed>>
              /\ since_reset' =
                    [since_reset EXCEPT
                        !.active = @ /\ layout.align = 1,
                        !.total = @ + layout.size,
                        !.chunks = @ + (IF slow THEN 1 ELSE 0)]
              /\ allocated_into' = IF r.some
                                   THEN allocated_into \cup {r.bump.current_chunk_footer}
                                   ELSE allocated_into
    /\ UNCHANGED <<released, only_allocs, requested>>

DoAllocWithin(name, layout, fill, regions, ops, blocks) ==
    DoAllocOf({alloc_layout(bump, layout, data) : data \in regions},
              name, layout, fill, ops, blocks)

DoAllocFrom(name, layout, fill, regions) ==
    DoAllocWithin(name, layout, fill, regions, MaxOps, MaxLive)

DoAlloc(name, layout, fill) == DoAllocFrom(name, layout, fill, Regions(layout))

Alloc == \E layout \in ValueLayouts : DoAlloc("alloc", layout, TRUE)

\* alloc_slice_copy(src); the operation records the length of the slice it
\* returned as new_size.
AllocSliceCopy ==
    \E elem \in ElemSizes :
       \E src \in Slices(elem) :
          /\ StepWith(src)
          /\ Cardinality(live) < MaxLive
          /\ \E data \in Regions(Layout(Len(src) * elem, elem)) :
                LET layout == Layout(Len(src) * elem, elem)
                    r == alloc_slice_copy(bump, mem, src, elem, data)
                    slow == r.bump.current_chunk_footer # bump.current_chunk_footer
                IN  /\ bump' = r.bump
                    /\ mem' = r.mem
                    /\ Heap(r.bump)
                    /\ last' = Op("alloc_slice_copy",
                                  [NoBlock EXCEPT !.id = next_id, !.layout = layout],
                                  r.len, r.some, r.p, slow)
                    /\ IF r.some
                       THEN /\ live' = live \cup
                                 {Block(next_id, r.p, layout, "alloc", layout.size)}
                            /\ next_id' = next_id + 1
                            /\ placed' = Append(placed, next_id)
                            /\ allocated_into' =
                                  allocated_into \cup {r.bump.current_chunk_footer}
                       ELSE UNCHANGED <<live, next_id, placed, allocated_into>>
                    /\ since_reset' =
                          [since_reset EXCEPT
                              !.active = @ /\ layout.align = 1,
                              !.total = @ + layout.size,
                              !.chunks = @ + (IF slow THEN 1 ELSE 0)]
          /\ UNCHANGED <<released, only_allocs, requested>>

AllocLayout == \E layout \in RawLayouts : DoAlloc("alloc_layout", layout, FALSE)

Dealloc ==
    /\ Step
    /\ \E blk \in live :
          /\ bump' = dealloc(bump, blk.ptr, blk.layout)
          /\ live' = live \ {blk}
          /\ last' = Op("dealloc", blk, 0, TRUE, None, FALSE)
          /\ placed' = Without(placed, blk.id)
    /\ since_reset' = [since_reset EXCEPT !.active = FALSE]
    /\ only_allocs' = FALSE
    /\ UNCHANGED <<heap_top, acquired, released, mem, next_id, allocated_into, requested>>

ReallocRegions(blk, new_size) ==
    IF realloc_needs_chunk(bump, blk.ptr, blk.layout, new_size)
    THEN Regions(Layout(new_size, blk.layout.align))
    ELSE {None}

ReallocTo(sizes) ==
    /\ Step
    /\ \E blk \in live, new_size \in sizes :
          \E data \in ReallocRegions(blk, new_size),
             fault \in Faults(bump, blk.ptr, blk.layout, new_size) :
             LET r == realloc(bump, mem, blk.ptr, blk.layout, new_size, data, fault)
                 slow == r.bump.current_chunk_footer # bump.current_chunk_footer
             IN  /\ bump' = r.bump
                 /\ mem' = r.mem
                 /\ Heap(r.bump)
                 /\ last' = [Op("realloc", blk, new_size, r.some, r.p, slow)
                                EXCEPT !.died = r.died]
                 /\ live' = IF r.some
                            THEN (live \ {blk}) \cup
                                   {Block(blk.id, r.p, Layout(new_size, blk.layout.align),
                                          "realloc", Min(blk.filled, new_size))}
                            ELSE live
                 /\ placed' = IF r.some /\ r.bump # bump
                             THEN Append(Without(placed, blk.id), blk.id)
                             ELSE placed
                 /\ allocated_into' =
                       IF r.some /\ new_size > blk.layout.size
                       THEN allocated_into \cup {r.bump.current_chunk_footer}
                       ELSE allocated_into
    /\ since_reset' = [since_reset EXCEPT !.active = FALSE]
    /\ only_allocs' = FALSE
    /\ UNCHANGED <<released, next_id, requested>>

Realloc == ReallocTo(NewSizes)

\* realloc called to grow a block.
ReallocGrow == ReallocTo(GrowSizes)

\* reset takes &mut self: every block borrowed from the arena is gone, and
\* no call on the arena is under way.
Reset ==
    /\ Step
    /\ calling = << >>
    /\ LET r == reset(bump)
       IN  /\ bump' = r.bump
           /\ released' = released \o r.released
           /\ since_reset' = [active |-> TRUE, total |-> 0, chunks |-> 0,
                              capacity |-> ChunkCapacity(r.bump)]
    /\ live' = {}
    /\ placed' = << >>
    /\ allocated_into' = {}
    /\ only_allocs' = TRUE
    /\ last' = Op("reset", NoBlock, 0, TRUE, None, FALSE)
    /\ UNCHANGED <<heap_top, acquired, mem, next_id, requested>>

Next == Alloc \/ AllocLayout \/ Dealloc \/ Realloc \/ Reset

Spec == Init /\ [][Next]_vars

\* Drop for Bump: every chunk of the chain goes back to the system
\* allocator, and with the arena every block borrowed from it.
Drop ==
    /\ Step
    /\ calling = << >>
    /\ released' = released \o dealloc_chunk_list(bump.footers, bump.current_chunk_footer)
    /\ live' = {}
    /\ placed' = << >>
    /\ last' = Op("drop", NoBlock, 0, TRUE, None, FALSE)
    /\ UNCHANGED <<bump, heap_top, acquired, mem, next_id, since_reset, allocated_into,
                   only_allocs, requested>>

\* alloc_layout over a system allocator that places regions above or below
\* those it has handed out.
AllocLayoutAnywhere ==
    \E layout \in RawLayouts :
       DoAllocFrom("alloc_layout", layout, FALSE, RegionsAnywhere(layout))

\* The arena from its construction to its drop.
NextDrop == AllocLayoutAnywhere \/ Dealloc \/ Realloc \/ Reset \/ Drop

SpecDrop == Init /\ [][NextDrop]_vars

\* The arena under clients that allocate, deallocate and grow blocks.
NextGrow == Alloc \/ AllocLayout \/ Dealloc \/ ReallocGrow

SpecGrow == Init /\ [][NextGrow]_vars

\* Arenas made by with_capacity, under clients that allocate bytes.
AllocCap == \E layout \in CapLayouts : DoAlloc("alloc_layout", layout, FALSE)

NextCap == AllocCap \/ Dealloc \/ Reset

SpecCap == InitCap /\ [][NextCap]_vars

\* The arena under clients that fill chunks between resets: up to two
\* allocations more than the other clients make, and one more live block.
AllocFill ==
    \E layout \in FillLayouts :
       DoAllocWithin("alloc_layout", layout, FALSE, Regions(layout), MaxOps + 2, MaxLive + 1)

NextFill == AllocFill \/ Reset

SpecFill == Init /\ [][NextFill]_vars

\* The arena under clients that allocate whole multiples of an alignment.
AllocUniform == \E layout \in UniformLayouts : DoAlloc("alloc_layout", layout, FALSE)

NextUniform == AllocUniform \/ Dealloc \/ Reset

SpecUniform == Init /\ [][NextUniform]_vars

\* try_alloc_layout(layout)
TryAllocLayoutOf(layouts) ==
    \E layout \in layouts :
       DoAllocOf({try_alloc_layout(bump, layout, data) : data \in Regions(layout)},
                 "try_alloc_layout", layout, FALSE, MaxOps, MaxLive)

\* The test allocator's toggle_state: the system allocator starts or stops
\* answering null.
ToggleState ==
    /\ Running
    /\ returning_null' = ~ returning_null
    /\ UNCHANGED <<bump, heap_top, acquired, released, mem, live, next_id, nops,
                   last, prev_op, pre, since_reset, allocated_into, only_allocs,
                   requested, arg, placed, computed, drop_list,
                   calling>>

\* The arena over a system allocator that may answer null.
AllocOom == \E layout \in OomLayouts : DoAlloc("alloc_layout", layout, FALSE)

NextOom == AllocOom \/ ReallocGrow \/ Dealloc \/ ToggleState

SpecOom == Init /\ [][NextOom]_vars

\* The arena under clients that call try_alloc_layout, over a system
\* allocator that may answer null.
TryAllocOom == TryAllocLayoutOf(OomLayouts)

NextTry == TryAllocOom \/ Dealloc \/ ToggleState

SpecTry == Init /\ [][NextTry]_vars

\* The arena under clients that ask for sizes near the end of the address
\* space.
AllocBig == \E layout \in BigLayouts : DoAlloc("alloc_layout", layout, FALSE)

NextOverflow == AllocBig \/ Dealloc \/ Reset

SpecOverflow == Init /\ [][NextOverflow]_vars

\* An arena of capacity 64 under a client that allocates 16-byte regions of
\* one layout, one after the other.
InitRegions == Constructed(with_capacity(64), 64)

AllocRegion ==
    \E layout \in RegionLayouts :
       /\ nops = 0 \/ layout = last.layout
       /\ DoAllocWithin("alloc_layout", layout, FALSE, Regions(layout),
                        MaxRegions, MaxRegions)

NextRegions == AllocRegion

SpecRegions == InitRegions /\ [][NextRegions]_vars

\* The arena under clients that copy slices into it.
NextSlice == AllocSliceCopy \/ Dealloc \/ Reset

SpecSlice == Init /\ [][NextSlice]_vars

\* The types allocated zeroed, a zero-sized one among them, and the
\* lengths of the slices, one of them too long for any layout.
ZeroedLayouts == {Layout(0, 1), Layout(1, 1), Layout(2, 2), Layout(8, 8)}

ZeroedLens == (0 .. MaxSlice) \cup {HalfWord}

\* A zeroed allocation that asked alloc_layout for `layout`, or for nothing
\* when `asked` is false, and got `r`.
AllocZeroedOf(name, layout, asked, r) ==
    /\ StepWith(<< >>)
    /\ Cardinality(live) < MaxLive
    /\ LET slow == r.bump.current_chunk_footer # bump.current_chunk_footer
       IN  /\ bump' = r.bump
           /\ mem' = r.mem
           /\ Heap(r.bump)
           /\ last' = Op(name, [NoBlock EXCEPT !.id = next_id, !.layout = layout],
                         r.len, r.some, r.p, slow)
           /\ IF asked /\ r.some
              THEN /\ live' = live \cup
                        {Block(next_id, r.p, layout, "alloc", layout.size)}
                   /\ next_id' = next_id + 1
                   /\ placed' = Append(placed, next_id)
                   /\ allocated_into' =
                         allocated_into \cup {r.bump.current_chunk_footer}
              ELSE UNCHANGED <<live, next_id, placed, allocated_into>>
           /\ since_reset' =
                 IF asked
                 THEN [since_reset EXCEPT
                          !.active = @ /\ layout.align = 1,
                          !.total = @ + layout.size,
                          !.chunks = @ + (IF slow THEN 1 ELSE 0)]
                 ELSE since_reset
    /\ UNCHANGED <<released, only_allocs, requested>>

\* alloc_zeroed::<T>()
AllocZeroed ==
    \E layout \in ZeroedLayouts :
       \E data \in Regions(layout) :
          AllocZeroedOf("alloc_zeroed", layout, layout.size # 0,
                        alloc_zeroed(bump, mem, layout, data))

\* alloc_slice_zeroed::<T>(len); the operation records the length of the
\* slice it returned as new_size.
AllocSliceZeroed ==
    \E elem \in ZeroedLayouts, len \in ZeroedLens :
       LET l == Layout_array(elem, len)
           asked == len # 0 /\ elem.size # 0 /\ ~ l.err
           layout == IF asked THEN l.layout ELSE Layout(0, elem.align)
       IN  \E data \in Regions(layout) :
              AllocZeroedOf("alloc_slice_zeroed", layout, asked,
                            alloc_slice_zeroed(bump, mem, elem, len, data))

\* The arena under clients that allocate zeroed values and slices.
NextZeroed == Alloc \/ AllocSliceCopy \/ AllocZeroed \/ AllocSliceZeroed \/ Dealloc \/ Reset

SpecZeroed == Init /\ [][NextZeroed]_vars

\* alloc_with(f) and alloc_slice_clone(src) call the caller's code, f or
\* T::clone, after alloc_layout and before each ptr::write. That code
\* returns, or it panics, and until then it may call the arena through the
\* shared reference.
CallStep ==
    /\ nops < MaxOps
    /\ nops' = nops + 1
    /\ prev_op' = last
    /\ pre' = Snapshot
    /\ arg' = << >>
    /\ UNCHANGED <<returning_null, computed, drop_list>>

\* The block a call has placed and not yet returned.
Frame(fn, id, ptr, layout, src, elem) ==
    [fn |-> fn, id |-> id, ptr |-> ptr, layout |-> layout, src |-> src,
     elem |-> elem, i |-> 0]

\* alloc_layout(layout) as the first step of `fn`; when `returns`, the call
\* returns the block at once, otherwise it goes on to the caller's code.
Place(fn, layout, src, elem, returns) ==
    /\ CallStep
    /\ Cardinality(live) + Len(calling) < MaxLive
    /\ \E data \in Regions(layout) :
          LET r == alloc_layout(bump, layout, data)
              slow == r.bump.current_chunk_footer # bump.current_chunk_footer
              blk == [NoBlock EXCEPT !.id = next_id, !.layout = layout]
          IN  /\ bump' = r.bump
              /\ Heap(r.bump)
              /\ last' = Op(fn, blk, Len(src), r.some, r.p, slow)
              /\ IF r.some
                 THEN /\ next_id' = next_id + 1
                      /\ placed' = Append(placed, next_id)
                      /\ allocated_into' =
                            allocated_into \cup {r.bump.current_chunk_footer}
                      /\ IF returns
                         THEN /\ live' = live \cup
                                   {Block(next_id, r.p, layout, "alloc", layout.size)}
                              /\ UNCHANGED calling
                         ELSE /\ calling' = Append(calling,
                                     Frame(fn, next_id, r.p, layout, src, elem))
                              /\ UNCHANGED live
                 ELSE UNCHANGED <<next_id, placed, allocated_into, live, calling>>
              /\ since_reset' =
                    [since_reset EXCEPT
                        !.active = @ /\ layout.align = 1,
                        !.total = @ + layout.size,
                        !.chunks = @ + (IF slow THEN 1 ELSE 0)]
    /\ UNCHANGED <<released, mem, only_allocs, requested>>

\* The innermost call that is in the caller's code.
Innermost == calling[Len(calling)]

Outer == SubSeq(calling, 1, Len(calling) - 1)

\* alloc_with(f): alloc_layout, then f is called.
AllocWith == \E layout \in ValueLayouts : Place("alloc_with", layout, << >>, 0, FALSE)

\* f returns: inner_writer writes the value and alloc_with returns the block.
ClosureReturns ==
    /\ calling # << >>
    /\ Innermost.fn = "alloc_with"
    /\ CallStep
    /\ LET c == Innermost
       IN  /\ mem' = write(mem, c.ptr, c.layout.size, c.id)
           /\ live' = live \cup {Block(c.id, c.ptr, c.layout, "alloc", c.layout.size)}
           /\ last' = Op("alloc_with_returns", [NoBlock EXCEPT !.id = c.id, !.ptr = c.ptr,
                                                                !.layout = c.layout],
                         0, TRUE, c.ptr, FALSE)
    /\ calling' = Outer
    /\ UNCHANGED <<bump, heap_top, acquired, released, next_id, since_reset,
                   allocated_into, only_allocs, requested, placed>>

\* f or clone panics: the call is left without another write and without
\* returning the block, whose space stays taken.
ClosurePanics ==
    /\ calling # << >>
    /\ CallStep
    /\ LET c == Innermost
       IN  /\ placed' = Without(placed, c.id)
           /\ last' = Op("unwound", [NoBlock EXCEPT !.id = c.id, !.ptr = c.ptr,
                                                     !.layout = c.layout],
                         c.i, FALSE, None, FALSE)
    /\ calling' = Outer
    /\ UNCHANGED <<bump, heap_top, acquired, released, mem, live, next_id, since_reset,
                   allocated_into, only_allocs, requested>>

\* alloc_slice_clone(src): alloc_layout, then the loop over src; for an
\* empty slice the loop has no turn and the slice is returned.
AllocSliceClone ==
    \E elem \in ElemSizes :
       \E src \in Slices(elem) :
          Place("alloc_slice_clone", Layout(Len(src) * elem, elem), src, elem, src = << >>)

\* One turn of alloc_slice_clone's loop: clone returns the element and
\* ptr::write stores it; after the last turn the slice is returned.
CloneReturns ==
    /\ calling # << >>
    /\ Innermost.fn = "alloc_slice_clone"
    /\ CallStep
    /\ LET c == Innermost
           dst == c.ptr + c.i * c.elem
           done == c.i + 1 = Len(c.src)
       IN  /\ mem' = [a \in DOMAIN mem \cup (dst .. dst + c.elem - 1) |->
                        IF a >= dst /\ a < dst + c.elem
                        THEN ByteAt(c.src[c.i + 1], a - dst)
                        ELSE mem[a]]
           /\ last' = Op("clone_returns", [NoBlock EXCEPT !.id = c.id, !.ptr = c.ptr,
                                                           !.layout = c.layout],
                         c.i + 1, TRUE, IF done THEN c.ptr ELSE None, FALSE)
           /\ IF done
              THEN /\ live' = live \cup
                        {Block(c.id, c.ptr, c.layout, "alloc", c.layout.size)}
                   /\ calling' = Outer
              ELSE /\ calling' = Outer \o <<[c EXCEPT !.i = @ + 1]>>
                   /\ UNCHANGED live
    /\ UNCHANGED <<bump, heap_top, acquired, released, next_id, since_reset,
                   allocated_into, only_allocs, requested, placed>>

NextClosure ==
    \/ AllocWith \/ ClosureReturns \/ ClosurePanics
    \/ AllocSliceClone \/ CloneReturns
    \/ Alloc \/ Dealloc \/ Reset

SpecClosure == Init /\ [][NextClosure]_vars

\* The Layout methods, called on any size and power-of-two alignment.
Others ==
    UNCHANGED <<bump, heap_top, acquired, released, mem, live, next_id, nops,
                last, prev_op, pre, since_reset, allocated_into, only_allocs,
                requested, arg, placed, returning_null, calling>>

PaddingNeededFor ==
    /\ \E len \in LayoutSizes, own \in LayoutAligns, align \in LayoutAligns :
          computed' = Call("padding_needed_for", Layout(len, own), align,
                           padding_needed_for(Layout(len, own), align))
    /\ Others
    /\ UNCHANGED drop_list

Repeat ==
    /\ \E len \in LayoutSizes, align \in LayoutAligns, n \in LayoutCounts :
          \E ret \in repeat(Layout(len, align), n) :
             computed' = Call("repeat", Layout(len, align), n, ret)
    /\ Others
    /\ UNCHANGED drop_list

Array ==
    /\ \E layout \in TypeLayouts, n \in LayoutCounts :
          computed' = Call("array", layout, n, array(layout, n))
    /\ Others
    /\ UNCHANGED drop_list

NextLayout == PaddingNeededFor \/ Repeat \/ Array

SpecLayout == Init /\ [][NextLayout]_vars

\* The drop list by itself: init, insert and unlink called in any order on
\* any entry.
Misuse(phase) ==
    IF phase = "inited"
    THEN drop_list.misused
    ELSE drop_list.misused + 1

ListStep(phase, link, order, call) ==
    /\ Misuse(phase) <= MaxMisuse
    /\ drop_list' = [drop_list EXCEPT
                        !.link = link,
                        !.order = IF phase = "other" THEN << >> ELSE order,
                        !.call = call,
                        !.before = drop_list.link,
                        !.phase = phase,
                        !.misused = Misuse(phase)]
    /\ Others
    /\ UNCHANGED computed

InitList ==
    ListStep(IF drop_list.phase = "default" THEN "inited" ELSE "other",
             init(drop_list.link), << >>, ListCall("init", None, FALSE))

Insert ==
    \E node \in Entries :
       LET r == insert(drop_list.link, node)
       IN  ListStep(IF drop_list.phase \notin {"inited", "relinked"} THEN "other"
                    ELSE IF drop_list.link[node].prev # None THEN "relinked"
                    ELSE drop_list.phase,
                    r.link, Append(Without(drop_list.order, node), node),
                    ListCall("insert", node, r.panicked))

Unlink ==
    \E node \in Entries :
       LET r == unlink(drop_list.link, node)
       IN  ListStep(IF drop_list.phase \notin {"inited", "relinked"} THEN "other"
                    ELSE drop_list.phase,
                    r.link, Without(drop_list.order, node),
                    ListCall("unlink", node, r.panicked))

NextLinks == InitList \/ Insert \/ Unlink

SpecLinks == Init /\ [][NextLinks]_vars

\* The drop list under the arena's pinned boxes. The arena initialises its
\* list before any Box is made. Box::pin_in allocates an entry for the
\* value and inserts its link; dropping the Box runs the value's destructor
\* and unlinks the entry; a forgotten Box does neither. A Box may be moved
\* into the value of another Box, which then drops it with its other
\* fields. Dropping the arena, which no Box held by the program outlives,
\* calls run_drop.
InitArena ==
    /\ drop_list.phase = "default"
    /\ drop_list' = [drop_list EXCEPT
                        !.link = init(drop_list.link),
                        !.call = ListCall("init", None, FALSE),
                        !.before = drop_list.link,
                        !.phase = "inited"]
    /\ Others
    /\ UNCHANGED computed

PinIn ==
    /\ drop_list.phase = "inited"
    /\ drop_list.walk.state = "idle"
    /\ \E node \in Entries, align \in EntryAligns :
          LET r == insert(drop_list.link, node)
          IN  /\ drop_list.box[node] = "none"
              /\ \A e \in Entries : e < node => drop_list.box[e] # "none"
              /\ drop_list' = [drop_list EXCEPT
                                  !.link = r.link,
                                  !.box[node] = "held",
                                  !.align[node] = align,
                                  !.order = Append(drop_list.order, node),
                                  !.call = ListCall("pin_in", node, r.panicked),
                                  !.before = drop_list.link]
    /\ Others
    /\ UNCHANGED computed

Give ==
    /\ \E node \in Entries, to \in Entries :
          /\ node # to
          /\ drop_list.box[node] = "held"
          /\ drop_list.box[to] = "held"
          /\ drop_list' = [drop_list EXCEPT
                              !.box[node] = "given",
                              !.owner[node] = to,
                              !.call = ListCall("give", node, FALSE),
                              !.before = drop_list.link]
    /\ Others
    /\ UNCHANGED computed

DropBox ==
    /\ \E node \in Entries :
          /\ drop_list.box[node] = "held"
          /\ drop_list' = [drop_boxes([drop_list EXCEPT
                                          !.box[node] = "given",
                                          !.owner[node] = None,
                                          !.call = ListCall("drop_box", node, FALSE)],
                                      {node})
                             EXCEPT !.before = drop_list.link]
    /\ Others
    /\ UNCHANGED computed

Forget ==
    /\ \E node \in Entries :
          /\ drop_list.box[node] = "held"
          /\ drop_list' = [drop_list EXCEPT
                              !.box[node] = "forgotten",
                              !.call = ListCall("forget", node, FALSE),
                              !.before = drop_list.link]
    /\ Others
    /\ UNCHANGED computed

\* DropList::run_drop is entered: curr = self.link.next.get().unwrap(),
\* which panics on a list that was never initialised.
DropBump ==
    /\ drop_list.phase = "inited"
    /\ drop_list.walk.state = "idle"
    /\ \A e \in Entries : drop_list.box[e] # "held"
    /\ drop_list' = [drop_list EXCEPT
                        !.walk = IF drop_list.link[ListHead].next = None
                                 THEN [state |-> "panicked", curr |-> None]
                                 ELSE [state |-> "running",
                                       curr |-> drop_list.link[ListHead].next],
                        !.call = ListCall("drop", None,
                                          drop_list.link[ListHead].next = None),
                        !.before = drop_list.link]
    /\ Others
    /\ UNCHANGED computed

\* run_drop's loop finds curr at the head and ends.
RunDropEnd ==
    /\ drop_list.walk.state = "running"
    /\ drop_list.walk.curr = ListHead
    /\ drop_list' = [drop_list EXCEPT !.walk.state = "done"]
    /\ Others
    /\ UNCHANGED computed

\* run_drop's loop calls the entry's drop_fn on the data of the entry read
\* as DropEntry<()>. Where the value's type puts the data there too, the
\* value is dropped in place, its destructor and the drops of its fields
\* running before the loop goes on. Where it does not, the destructor is
\* given bytes of the entry's padding in place of the value: the value is
\* not dropped, and the call returns or the process ends in it.
RunDropFn ==
    /\ drop_list.walk.state = "running"
    /\ drop_list.walk.curr # ListHead
    /\ LET curr == drop_list.walk.curr
       IN  IF data_offset(drop_list.align[curr]) = data_offset(1)
           THEN drop_list' = [drop_in_place(drop_list, curr)
                                 EXCEPT !.walk.state = "called"]
           ELSE \E state \in {"called", "aborted"} :
                   drop_list' = [drop_list EXCEPT
                                    !.stray = @ \cup {curr},
                                    !.walk.state = state]
    /\ Others
    /\ UNCHANGED computed

\* run_drop's loop reads the entry's next as the destructor left it:
\* curr = entry.link.next.get().unwrap().
RunDropNext ==
    /\ drop_list.walk.state = "called"
    /\ LET next == drop_list.link[drop_list.walk.curr].next
       IN  drop_list' =
              IF next = None
              THEN [drop_list EXCEPT !.walk.state = "panicked"]
              ELSE [drop_list EXCEPT !.walk = [state |-> "running", curr |-> next]]
    /\ Others
    /\ UNCHANGED computed

RunDrop == RunDropEnd \/ RunDropFn \/ RunDropNext

NextPin == InitArena \/ PinIn \/ Give \/ DropBox \/ Forget \/ DropBump \/ RunDrop

\* run_drop runs on once entered.
SpecPin == Init /\ [][NextPin]_vars /\ WF_vars(RunDrop)

\* ------------------------------------------------------------------------
\* Properties.
\* ------------------------------------------------------------------------

AllocOps == {"alloc", "alloc_layout"}

\* The chunks of the arena: the footers on the prev chain of the current one.
Chunks ==
    LET c == chain(bump.footers, bump.current_chunk_footer)
    IN  {c[i] : i \in 1 .. Len(c)}

NonZero(blk) == blk.layout.size > 0

Overlap(p, n, q, k) == n > 0 /\ k > 0 /\ p < q + k /\ q < p + n

\* C1: the byte ranges of two distinct live blocks of non-zero size never
\* overlap, after any sequence of alloc, alloc_layout, realloc and dealloc.
C1_Disjoint ==
    \A x \in live, y \in live :
        (x.id # y.id /\ NonZero(x) /\ NonZero(y))
            => ~ Overlap(x.ptr, x.layout.size, y.ptr, y.layout.size)

\* Two non-zero blocks are live and adjacent, one of them returned by a
\* realloc that grew it.
C1_Witness ==
    /\ last.op = "realloc" /\ last.ok /\ last.new_size > last.layout.size
    /\ \E x \in live, y \in live :
          /\ x.id = last.id /\ y.id # last.id
          /\ NonZero(x) /\ NonZero(y)
          /\ x.ptr + x.layout.size = y.ptr

\* C2: every pointer alloc_layout(layout) returns, from the fast path or the
\* slow path, is a multiple of layout.align.
C2_Aligned ==
    (last.op \in AllocOps /\ last.ok) => last.ret % last.layout.align = 0

\* A slow-path allocation aligned to 16 follows a fast-path allocation
\* aligned to 8 that left the cursor off a 16-byte boundary.
C2_Witness ==
    /\ last.op = "alloc_layout" /\ last.ok /\ last.slow /\ last.layout.align = 16
    /\ prev_op.op = "alloc" /\ ~ prev_op.slow /\ prev_op.layout.align = 8
    /\ last.cursor0 % 16 # 0

\* C3: every live block lies within [data, footer) of exactly one chunk of
\* the chain.
C3_Contained ==
    \A x \in live :
        Cardinality({f \in Chunks :
                       /\ bump.footers[f].data <= x.ptr
                       /\ x.ptr + x.layout.size <= f}) = 1

\* Blocks live in two chunks, one of them flush against its chunk's data.
C3_Witness ==
    /\ Cardinality(Chunks) >= 2
    /\ \E x \in live, y \in live :
          /\ NonZero(x) /\ NonZero(y)
          /\ x.ptr = bump.footers[bump.current_chunk_footer].data
          /\ y.ptr < bump.footers[bump.current_chunk_footer].prev

\* The addresses whose byte the step changes.
Changed == {a \in DOMAIN mem \cup DOMAIN mem' : Read(mem, a) # Read(mem', a)}

\* C4: a step leaves the bytes of every block it was not called on as they
\* were: a value written into a block is read back unchanged after any
\* alloc, realloc or dealloc made for other blocks.
C4_Frame ==
    [][\A x \in live \cap live' :
          \A a \in Changed : ~ (x.ptr <= a /\ a < x.ptr + x.layout.size)]_vars

\* A realloc has grown a block in place and copied its bytes while another
\* block holding a written value was live.
C4_Witness ==
    /\ last.op = "realloc" /\ last.ok /\ last.tail
    /\ last.new_size > last.layout.size /\ last.ret # last.ptr /\ ~ last.slow
    /\ mem # pre.mem
    /\ \E x \in live : x.id # last.id /\ x.filled > 0
                         /\ Bytes(mem, x.ptr, x.filled) = [i \in 0 .. x.filled - 1 |-> ByteOf(x.id, i)]

\* C5: a zero-sized allocation succeeds, returns a non-null pointer aligned
\* to the requested alignment and consumes no space: it leaves the cursor of
\* the current chunk where it was and acquires no chunk.
C5_ZeroSizedConsumesNothing ==
    (last.op \in AllocOps /\ last.layout.size = 0)
        => /\ last.ok
           /\ last.ret # None
           /\ last.ret % last.layout.align = 0
           /\ bump.current_chunk_footer = pre.bump.current_chunk_footer
           /\ Cursor(bump) = last.cursor0

\* C6: after reset the arena holds exactly one chunk, the one that was
\* current, with prev = None, the cursor at the footer and
\* end_of_first_allocation cleared; every predecessor has been returned to
\* the system allocator with the data and layout it was acquired with.
C6_ResetLeavesOneEmptyChunk ==
    last.op = "reset" =>
        LET cur == bump.current_chunk_footer
            was == pre.bump.footers
            gone == DOMAIN was \ {cur}
        IN  /\ cur = pre.bump.current_chunk_footer
            /\ DOMAIN bump.footers = {cur}
            /\ Chunks = {cur}
            /\ bump.footers[cur].prev = None
            /\ bump.footers[cur].ptr = cur
            /\ bump.footers[cur].end_of_first_allocation = None
            /\ bump.footers[cur].data = was[cur].data
            /\ bump.footers[cur].layout = was[cur].layout
            /\ Len(released) = pre.released + Cardinality(gone)
            /\ {released[i] : i \in pre.released + 1 .. Len(released)}
                  = {[data |-> was[f].data, layout |-> was[f].layout] : f \in gone}

\* A reset of an arena of three chunks whose current chunk held a block.
C6_Witness ==
    /\ last.op = "reset"
    /\ Len(released) = pre.released + 2
    /\ pre.bump.footers[pre.bump.current_chunk_footer].end_of_first_allocation # None
    /\ last.cursor0 # bump.current_chunk_footer

\* C7: reset is idempotent: a reset that follows a reset leaves the arena
\* as the first one left it and releases no chunk.
C7_ResetIdempotent ==
    (last.op = "reset" /\ prev_op.op = "reset")
        => /\ bump = pre.bump
           /\ Len(released) = pre.released
           /\ mem = pre.mem

\* Two resets in a row, the first of which released chunks.
C7_Witness ==
    /\ last.op = "reset" /\ prev_op.op = "reset"
    /\ Len(released) >= 2
    /\ prev_op.cursor0 # bump.current_chunk_footer

\* C8: the chunk reset retains is at least as large as every chunk it
\* releases, and after a reset align-1 allocations that total at most the
\* capacity of that chunk (its size less the footer) acquire no chunk.
C8_ResetRetainsLargest ==
    /\ last.op = "reset" =>
          \A i \in pre.released + 1 .. Len(released) :
              released[i].layout.size
                <= bump.footers[bump.current_chunk_footer].layout.size
    /\ (since_reset.active /\ since_reset.total <= since_reset.capacity)
          => since_reset.chunks = 0

\* After a reset that released a chunk, two align-1 allocations filled the
\* retained chunk to its last byte: the cursor is at the chunk's data.
C8_Witness ==
    /\ since_reset.active /\ since_reset.chunks = 0
    /\ Len(released) > 0
    /\ last.op \in AllocOps /\ last.ok /\ prev_op.op \in AllocOps /\ prev_op.ok
    /\ since_reset.total = since_reset.capacity
    /\ Cursor(bump) = bump.footers[bump.current_chunk_footer].data

\* C9: dealloc of the tail block (p, L), p returned by alloc_layout(L) with
\* L.size > 0, raises the cursor of the current chunk by exactly L.size, and
\* an alloc_layout(L) that follows at once returns p again.
C9_TailDeallocReclaims ==
    /\ (last.op = "dealloc" /\ last.tail /\ last.via = "alloc" /\ last.layout.size > 0)
          => /\ bump.current_chunk_footer = pre.bump.current_chunk_footer
             /\ Cursor(bump) = last.cursor0 + last.layout.size
    /\ (/\ last.op \in AllocOps
        /\ prev_op.op = "dealloc" /\ prev_op.tail /\ prev_op.via = "alloc"
        /\ prev_op.layout.size > 0
        /\ last.layout = prev_op.layout)
          => last.ok /\ ~ last.slow /\ last.ret = prev_op.ptr

\* A tail block was deallocated while an older block was live, and the same
\* layout was allocated again.
C9_Witness ==
    /\ last.op \in AllocOps /\ last.ok
    /\ prev_op.op = "dealloc" /\ prev_op.tail /\ prev_op.via = "alloc"
    /\ prev_op.layout.size > 0 /\ last.layout = prev_op.layout
    /\ last.ret = prev_op.ptr
    /\ \E x \in live : x.id # last.id /\ NonZero(x) /\ x.ptr > last.ret

\* C10: dealloc of a block that is not the tail changes nothing (cursor,
\* current chunk, chain, end_of_first_allocation, bytes), so the next
\* allocation is placed below the cursor the dealloc found, directly below
\* the most recent allocation, and never inside the deallocated block.
C10_NonTailDeallocIsNoOp ==
    /\ (last.op = "dealloc" /\ ~ last.tail)
          => bump = pre.bump /\ mem = pre.mem /\ Len(released) = pre.released
    /\ (last.op \in AllocOps /\ last.ok /\ prev_op.op = "dealloc" /\ ~ prev_op.tail)
          => /\ last.cursor0 = prev_op.cursor0
             /\ ~ last.slow =>
                   last.ret = AlignDown(prev_op.cursor0 - last.layout.size,
                                        last.layout.align)
             /\ prev_op.layout.size > 0 /\ last.layout.size > 0 =>
                   ~ Overlap(last.ret, last.layout.size,
                             prev_op.ptr, prev_op.layout.size)

\* Blocks A then B were allocated, A was deallocated, and the block allocated
\* next lies directly below B.
C10_Witness ==
    /\ last.op \in AllocOps /\ last.ok /\ ~ last.slow /\ last.layout.size > 0
    /\ prev_op.op = "dealloc" /\ ~ prev_op.tail /\ prev_op.layout.size > 0
    /\ \E y \in live :
          /\ y.id # last.id /\ NonZero(y)
          /\ y.ptr = prev_op.cursor0
          /\ last.ret + last.layout.size = y.ptr
          /\ y.ptr < prev_op.ptr

\* What realloc was asked to do by the last operation.
Grew == last.op = "realloc" /\ last.new_size > last.layout.size

Shrank == last.op = "realloc" /\ last.new_size <= last.layout.size

Delta == last.new_size - last.layout.size

\* C11: after a successful realloc of (ptr, old_size) to new_size returning
\* q, the first min(old_size, new_size) bytes at q are the bytes that were at
\* ptr before the call, defined or not, on every path.
C11_ReallocPreservesPrefix ==
    (last.op = "realloc" /\ last.ok) =>
        LET n == Min(last.layout.size, last.new_size)
        IN  /\ \A a \in DOMAIN pre.mem :
                  (a >= last.ptr /\ a < last.ptr + n)
                     => Read(mem, last.ret + (a - last.ptr)) = pre.mem[a]
            /\ \A a \in DOMAIN mem :
                  (a >= last.ret /\ a < last.ret + n)
                     => Read(pre.mem, last.ptr + (a - last.ret)) = mem[a]

\* A block holding a value was grown into a new chunk and then shrunk, which
\* moved it: its bytes were copied twice.
C11_Witness ==
    /\ Shrank /\ last.ok /\ last.ret # last.ptr /\ last.new_size > 0
    /\ prev_op.op = "realloc" /\ prev_op.id = last.id /\ prev_op.ret # prev_op.ptr
    /\ \A i \in 0 .. last.new_size - 1 :
          /\ last.ptr + i \in DOMAIN pre.mem
          /\ Read(mem, last.ret + i) = ByteOf(last.id, i)

\* Whether the tail block the last operation was called on had room below
\* it in the current chunk for the bytes it was to grow by.
FitsInPlace ==
    LET f == pre.bump.footers[pre.bump.current_chunk_footer]
    IN  /\ last.tail
        /\ Delta <= last.cursor0
        /\ AlignDown(last.cursor0 - Delta, last.layout.align) >= f.data

\* C12: growing the tail block by delta, when delta bytes aligned down to
\* layout.align still lie at or above the chunk base, reuses the space: no
\* chunk is acquired, the cursor is lowered by delta plus at most align - 1
\* bytes of padding, and the returned pointer is the new cursor; with align
\* 1 it is exactly ptr - delta.
C12_TailGrowsInPlace ==
    (Grew /\ FitsInPlace) =>
        /\ last.ok /\ ~ last.slow
        /\ bump.current_chunk_footer = pre.bump.current_chunk_footer
        /\ last.ret = Cursor(bump)
        /\ last.cursor0 - Cursor(bump) >= Delta
        /\ last.cursor0 - Cursor(bump) <= Delta + (last.layout.align - 1)
        /\ last.layout.align = 1 => last.ret = last.ptr - Delta

\* C13: every pointer a successful grow returns, in place or fresh, is
\* aligned to the layout's alignment, along every chain of grows.
C13_GrowAligned ==
    (Grew /\ last.ok) => last.ret % last.layout.align = 0

\* A block with an alignment above 1 was grown twice in a row, once in place
\* and once into a fresh allocation.
C13_Witness ==
    /\ Grew /\ last.ok /\ last.layout.align > 1
    /\ prev_op.op = "realloc" /\ prev_op.ok /\ prev_op.id = last.id
    /\ prev_op.new_size > prev_op.layout.size
    /\ prev_op.tail /\ ~ prev_op.slow /\ prev_op.ret < prev_op.ptr
    /\ last.slow

\* C14: a realloc to new_size <= old_size with the same alignment succeeds
\* and returns a pointer aligned to that alignment, moved or not.
C14_ShrinkAligned ==
    Shrank => last.ok /\ last.ret % last.layout.align = 0

\* C15: a shrinking realloc moves the block only when ptr is the tail and
\* new_size <= old_size / 2: the cursor then rises by exactly old_size -
\* new_size and the returned pointer is the new cursor; in every other case
\* the same pointer is returned and the arena is unchanged.
C15_ShrinkMovesOnlyWorthwhileTail ==
    Shrank =>
        /\ last.ok
        /\ IF last.tail /\ last.new_size <= last.layout.size \div 2
           THEN /\ Cursor(bump) = last.cursor0 + (last.layout.size - last.new_size)
                /\ last.ret = Cursor(bump)
                /\ bump.current_chunk_footer = pre.bump.current_chunk_footer
           ELSE /\ last.ret = last.ptr
                /\ bump = pre.bump

\* A tail block was shrunk by less than half and stayed, then shrunk to
\* nothing and moved.
C15_Witness ==
    /\ Shrank /\ last.tail /\ last.ret > last.ptr
    /\ last.new_size <= last.layout.size \div 2
    /\ prev_op.op = "realloc" /\ prev_op.id = last.id /\ prev_op.tail
    /\ prev_op.new_size < prev_op.layout.size
    /\ prev_op.new_size > prev_op.layout.size \div 2
    /\ prev_op.ret = prev_op.ptr

\* What C16 says of a grow that could not extend the block where it lies:
\* the new block is disjoint from every live block and from the old one,
\* and the old block's bytes are as they were.
FreshBlock ==
    /\ \A x \in live :
          (x.id # last.id /\ NonZero(x))
             => ~ Overlap(last.ret, last.new_size, x.ptr, x.layout.size)
    /\ last.layout.size > 0
          => ~ Overlap(last.ret, last.new_size, last.ptr, last.layout.size)
    /\ \A i \in 0 .. last.layout.size - 1 :
          Read(mem, last.ptr + i) = Read(pre.mem, last.ptr + i)

\* C16 as stated: growing a block that is not the tail, or a tail whose
\* extra bytes do not fit in the current chunk, allocates afresh: the
\* returned pointer differs from ptr - delta, the new block is disjoint from
\* every live block, and the old block's bytes are untouched.
C16_GrowElsewhereIsFresh ==
    (Grew /\ last.ok /\ ~ FitsInPlace) =>
        /\ last.ret # last.ptr - Delta
        /\ FreshBlock

\* C16 amended: the returned pointer differs from ptr - delta when the old
\* block has a size; a zero-sized block may lie below the cursor, and the
\* fresh allocation of its grow may land exactly at ptr - delta.
C16_GrowElsewhereIsFresh_Amended ==
    (Grew /\ last.ok /\ ~ FitsInPlace) =>
        /\ last.layout.size > 0 => last.ret # last.ptr - Delta
        /\ FreshBlock

\* A block holding a value was grown while a younger block was the tail.
C16_Witness ==
    /\ Grew /\ last.ok /\ ~ last.tail /\ ~ last.slow
    /\ last.layout.size > 0 /\ last.ptr \in DOMAIN mem
    /\ last.ret < last.ptr - Delta
    /\ \E x \in live : x.id # last.id /\ NonZero(x) /\ x.ptr = last.cursor0

\* The chunk of the arena a slice or a block at `ptr` lies in.
ChunkOf(ptr) ==
    CHOOSE f \in Chunks : bump.footers[f].data <= ptr /\ ptr <= f

\* The position of chunk f among the regions acquired from the system.
Acquisition(f) ==
    CHOOSE i \in 1 .. Len(acquired) : acquired[i].data = bump.footers[f].data

\* C17: iter_allocated_chunks and each_allocated_chunk visit chunks of the
\* arena newest first, in reverse order of acquisition, and visit every
\* chunk that has been allocated into exactly once.
C17_IterNewestFirstOnce ==
    LET ys == iter_allocated_chunks(bump)
        visited == [i \in 1 .. Len(ys) |-> ChunkOf(ys[i].ptr)]
        order == [i \in 1 .. Len(ys) |-> Acquisition(visited[i])]
    IN  /\ each_allocated_chunk(bump) = ys
        /\ \A i \in 1 .. Len(ys) :
              \E f \in Chunks : bump.footers[f].data <= ys[i].ptr /\ ys[i].ptr <= f
        /\ \A i \in 1 .. Len(ys) - 1 : order[i] > order[i + 1]
        /\ {visited[i] : i \in 1 .. Len(ys)} = allocated_into

\* The arena has three chunks: nothing was allocated in the first, and the
\* iteration visits the third and then the second.
C17_Witness ==
    /\ Cardinality(Chunks) = 3
    /\ Len(iter_allocated_chunks(bump)) = 2
    /\ Cardinality(allocated_into) = 2

\* Every allocation since the arena was made or reset is live, and all have
\* the same alignment and a size that is a multiple of it.
Uniform ==
    /\ only_allocs
    /\ \A x, y \in live : x.layout.align = y.layout.align
    /\ \A x \in live : x.layout.size % x.layout.align = 0

RECURSIVE SumSizes(_)
SumSizes(blocks) ==
    IF blocks = {}
    THEN 0
    ELSE LET x == CHOOSE x \in blocks : TRUE
         IN  x.layout.size + SumSizes(blocks \ {x})

RECURSIVE SumLen(_)
SumLen(ys) == IF ys = << >> THEN 0 ELSE Head(ys).len + SumLen(Tail(ys))

\* The live blocks in the chunk a slice lies in.
BlocksOf(slice) == {x \in live : ChunkOf(x.ptr) = ChunkOf(slice.ptr)}

\* C18: when every allocation has the same alignment and a size that is a
\* multiple of it, the slices of iter_allocated_chunks hold no padding: each
\* is the concatenation of its chunk's allocations, most recent first, and
\* the lengths add up to the sum of the allocation sizes.
C18_UniformSlicesHaveNoPadding ==
    Uniform =>
        LET ys == iter_allocated_chunks(bump)
        IN  /\ \A i \in 1 .. Len(ys) :
                  /\ ys[i].len = SumSizes(BlocksOf(ys[i]))
                  /\ \A x \in BlocksOf(ys[i]) :
                        x.ptr = ys[i].ptr
                                  + SumSizes({y \in BlocksOf(ys[i]) : y.id > x.id})
            /\ SumLen(ys) = SumSizes(live)

\* Two blocks aligned to 16 lie in a chunk whose footer is not, so that the
\* first of them ends below the footer.
C18_Witness ==
    /\ Uniform
    /\ Len(iter_allocated_chunks(bump)) >= 1
    /\ \E x, y \in live :
          /\ x.id < y.id /\ NonZero(x) /\ NonZero(y) /\ x.layout.align = 16
          /\ ChunkOf(x.ptr) = ChunkOf(y.ptr)
          /\ bump.footers[ChunkOf(x.ptr)].end_of_first_allocation < ChunkOf(x.ptr)

\* C19: every live block of non-zero size lies within its chunk's range
\* from the cursor to the end of the first allocation, so the slice
\* iter_allocated_chunks yields for the chunk covers the block's bytes.
C19_LiveBlocksInsideSlices ==
    \A x \in {y \in live : NonZero(y)} :
            LET foot == bump.footers[ChunkOf(x.ptr)]
                ys == iter_allocated_chunks(bump)
            IN  /\ foot.end_of_first_allocation # None
                /\ foot.ptr <= x.ptr
                /\ x.ptr + x.layout.size <= foot.end_of_first_allocation
                /\ \E i \in 1 .. Len(ys) :
                      /\ ys[i].ptr <= x.ptr
                      /\ x.ptr + x.layout.size <= ys[i].ptr + ys[i].len

\* After a tail block was deallocated or shrunk, which raised the cursor,
\* an older block is live in the current chunk and a block is live in an
\* older chunk.
C19_Witness ==
    /\ last.op \in {"dealloc", "realloc"} /\ last.tail
    /\ Cursor(bump) > last.cursor0
    /\ \E x, y \in live :
          /\ NonZero(x) /\ NonZero(y)
          /\ ChunkOf(x.ptr) = bump.current_chunk_footer
          /\ ChunkOf(y.ptr) # bump.current_chunk_footer

\* C20: an arena made by with_capacity(n) serves align-1 allocations
\* totalling up to n bytes from its initial chunk: while no more than n
\* bytes have been requested, every allocation succeeds without acquiring a
\* chunk.
C20_WithCapacityServes ==
    (/\ requested # Nothing /\ only_allocs
     /\ last.op \in AllocOps /\ last.layout.align = 1
     /\ Len(acquired) = 1 \/ (Len(acquired) = 2 /\ last.slow)
     /\ \A x \in live : x.layout.align = 1
     /\ SumSizes({x \in live : x.id # last.id}) + last.layout.size <= requested)
        => /\ last.ok /\ ~ last.slow
           /\ Len(acquired) = 1
           /\ \A x \in live :
                 /\ acquired[1].data <= x.ptr
                 /\ x.ptr + x.layout.size <= footer_of(acquired[1].data, acquired[1].layout)

\* The allocations made from an arena of a capacity above the default
\* chunk's add up to exactly that capacity.
C20_Witness ==
    /\ requested # Nothing /\ only_allocs
    /\ requested + FOOTER_SIZE > DEFAULT_CHUNK_SIZE_WITH_FOOTER * 2
    /\ last.op \in AllocOps /\ last.ok
    /\ Cardinality(live) = 2
    /\ SumSizes(live) = requested

\* C21: alloc_slice_copy(src) returns a slice as long as src whose elements
\* equal those of src, for every src including the empty slice.
C21_SliceCopyRoundTrip ==
    (last.op = "alloc_slice_copy" /\ last.ok) =>
        /\ last.new_size = Len(arg)
        /\ from_raw_parts(mem, last.ret, last.new_size, last.layout.align) = arg

\* A slice of two different two-byte elements was copied below a live
\* block.
C21_Witness ==
    /\ last.op = "alloc_slice_copy" /\ last.ok
    /\ last.layout.align = 2 /\ Len(arg) = 2 /\ arg[1] # arg[2]
    /\ \E x \in live : x.id # last.id /\ NonZero(x) /\ x.ptr = last.ret + 4

\* Whether the last operation, an allocation or a grow, had to acquire a
\* chunk to be served.
NeededChunk ==
    \/ /\ last.op \in AllocOps
       /\ needs_chunk(pre.bump, last.layout)
    \/ /\ last.op = "realloc"
       /\ realloc_needs_chunk(pre.bump, last.ptr, last.layout, last.new_size)

\* C22: when the system allocator returns null to an allocation or a
\* growing realloc that needs a new chunk, the operation fails and the
\* arena is as before the call: same current chunk, cursor, chain and
\* end_of_first_allocation; nothing was acquired or released.
C22_NullLeavesArenaUnchanged ==
    (NeededChunk /\ last.null) =>
        /\ ~ last.ok
        /\ bump = pre.bump
        /\ mem = pre.mem
        /\ Len(acquired) = pre.acquired
        /\ Len(released) = pre.released

\* An alloc_layout that needed a chunk failed on null, and so did the
\* realloc after it, which had to allocate afresh in a new chunk, in an arena
\* that holds a live block.
C22_Witness ==
    /\ last.op = "realloc" /\ NeededChunk /\ last.null /\ ~ last.ok
    /\ prev_op.op = "alloc_layout" /\ prev_op.null /\ ~ prev_op.ok
    /\ Cursor(bump) < bump.current_chunk_footer
    /\ \E x \in live : NonZero(x) /\ x.ptr = last.ptr

\* Whether the arithmetic of new_chunk for `layout`, with a current chunk
\* of old_size bytes, leaves the range of usize at some step.
Overflows(old_size, layout) ==
    \/ old_size * 2 > USIZE_MAX
    \/ layout.size + FOOTER_SIZE > USIZE_MAX
    \/ Max(old_size * 2, layout.size + FOOTER_SIZE) + (DEFAULT_CHUNK_ALIGN - 1)
          > USIZE_MAX

\* C23: if the arithmetic for a new chunk's size overflows at any step, the
\* allocation fails and the arena is unchanged; no chunk smaller than the
\* requested size plus the footer is created, and the slow path's pointer
\* arithmetic stays within the chunk.
C23_ChunkSizeOverflowFails ==
    LET old == pre.bump.footers[pre.bump.current_chunk_footer]
        new == bump.footers[bump.current_chunk_footer]
    IN  /\ (/\ last.op \in AllocOps
            /\ needs_chunk(pre.bump, last.layout)
            /\ Overflows(old.layout.size, last.layout))
              => ~ last.ok /\ bump = pre.bump /\ Len(acquired) = pre.acquired
        /\ (last.op \in AllocOps /\ last.slow)
              => /\ new.layout.size >= last.layout.size + FOOTER_SIZE
                 /\ bump.current_chunk_footer >= last.layout.size
                 /\ new.data <= last.ret
                 /\ last.ret + last.layout.size <= bump.current_chunk_footer

\* In an arena that has acquired a second chunk, an allocation for which
\* the rounding of the size overflows failed, and then one for which adding
\* the footer to the size wraps failed, leaving the arena as it was.
C23_Witness ==
    /\ last.op \in AllocOps /\ ~ last.ok
    /\ last.layout.size + FOOTER_SIZE > USIZE_MAX
    /\ last.layout.size % DEFAULT_CHUNK_ALIGN = 0
    /\ bump = pre.bump
    /\ Cardinality(Chunks) = 2
    /\ prev_op.op \in AllocOps /\ ~ prev_op.ok
    /\ prev_op.layout.size = USIZE_MAX

\* The chunks iter_allocated_chunks yields start with the chunk acquired
\* last.
NewestFirst ==
    LET ys == iter_allocated_chunks(bump)
        newest == acquired[Len(acquired)]
    IN  /\ Len(ys) >= 2
        /\ newest.data <= ys[1].ptr
        /\ ys[1].ptr + ys[1].len <= footer_of(newest.data, newest.layout)
        /\ footer_of(newest.data, newest.layout) = bump.current_chunk_footer

\* C24 as stated: on an arena of capacity 64, once twenty 16-byte regions
\* are allocated a slow path has been taken and iterating the chunks yields
\* at least 2 chunks, the newest first.
C24_TwentyRegionsGrow ==
    nops >= 20 => since_reset.chunks >= 1 /\ NewestFirst

\* C24, amended: on an arena of capacity 64, once sixty 16-byte regions are
\* allocated a slow path has been taken and iterating the chunks yields at
\* least 2 chunks, the newest first.
C24_SixtyRegionsGrow ==
    nops >= 60 => since_reset.chunks >= 1 /\ NewestFirst

\* Sixty regions are live, the last of them the first of a second chunk.
C24_Witness ==
    /\ nops = 60 /\ Cardinality(live) = 60
    /\ last.ok /\ last.slow
    /\ Cardinality(Chunks) = 2

\* By how much the last operation may raise the cursor of the chunk that was
\* current when it began.
Rise ==
    IF last.op = "dealloc" /\ last.tail
    THEN last.layout.size
    ELSE IF /\ last.op = "realloc" /\ last.tail
            /\ last.new_size <= last.layout.size \div 2
         THEN last.layout.size - last.new_size
         ELSE 0

\* C25 as stated: an operation other than reset never increases the cursor
\* of a chunk.
C25_CursorNeverIncreases ==
    last.op \notin {"none", "reset"} =>
        \A f \in DOMAIN pre.bump.footers :
            bump.footers[f].ptr <= pre.bump.footers[f].ptr

\* C25, amended: an operation other than reset leaves the cursor of a chunk
\* where it was or lower, except that deallocating the tail raises the
\* current chunk's cursor by the block's size and shrinking the tail to at
\* most half its size raises it by old_size - new_size.
C25_CursorRisesOnlyOnReclaim ==
    last.op \notin {"none", "reset"} =>
        \A f \in DOMAIN pre.bump.footers :
            IF f = pre.bump.current_chunk_footer /\ Rise > 0
            THEN bump.footers[f].ptr = pre.bump.footers[f].ptr + Rise
            ELSE bump.footers[f].ptr <= pre.bump.footers[f].ptr

\* The tail was shrunk to less than half its size in the second of two
\* chunks while another block was live, and the cursor rose by the
\* difference.
C25_Witness ==
    /\ last.op = "realloc" /\ last.tail /\ Rise > 0 /\ last.new_size > 0
    /\ Cardinality(Chunks) = 2
    /\ Cursor(bump) = last.cursor0 + Rise
    /\ \E x \in live : x.id # last.id /\ NonZero(x)

\* The live blocks of non-zero size in the order they were placed, oldest
\* first.
PlacedNonZero ==
    SelectSeq(placed, LAMBDA id : \E x \in live : x.id = id /\ NonZero(x))

\* C26: after a successful allocation of non-zero size the cursor is the
\* pointer returned; in every state at most one live block of non-zero size
\* has its pointer at the cursor, and it is the one placed most recently:
\* is_last_allocation holds of no other.
C26_TailDetectionExact ==
    /\ (last.op \in AllocOps /\ last.ok /\ last.layout.size > 0)
          => Cursor(bump) = last.ret /\ is_last_allocation(bump, last.ret)
    /\ \A x \in {y \in live : NonZero(y)} :
          is_last_allocation(bump, x.ptr)
              => x.id = PlacedNonZero[Len(PlacedNonZero)]

\* The tail was deallocated and the block placed before it, which lies
\* directly above, is the last allocation again.
C26_Witness ==
    /\ last.op = "dealloc" /\ last.tail /\ last.layout.size > 0
    /\ \E x \in live :
          /\ NonZero(x) /\ is_last_allocation(bump, x.ptr)
          /\ x.ptr = last.ptr + last.layout.size
          /\ x.id < last.id

SlowLayout ==
    IF last.op = "realloc"
    THEN Layout(last.new_size, last.layout.align)
    ELSE last.layout

\* C30: the chunk the slow path acquires for a layout L while the current
\* chunk has size S has size round_up(max(2 * S, L.size + footer size),
\* footer alignment) and is asked for with alignment max(footer alignment,
\* L.align); every chunk of the chain is at least twice the size of its
\* predecessor.
C30_ChunkSizeAndAlign ==
    /\ last.slow =>
          LET S == pre.bump.footers[pre.bump.current_chunk_footer].layout.size
              newest == acquired[Len(acquired)]
          IN  /\ Len(acquired) = pre.acquired + 1
              /\ newest.layout.size =
                    AlignDown(Max(2 * S, SlowLayout.size + FOOTER_SIZE)
                                 + (DEFAULT_CHUNK_ALIGN - 1),
                              DEFAULT_CHUNK_ALIGN)
              /\ newest.layout.align = Max(DEFAULT_CHUNK_ALIGN, SlowLayout.align)
              /\ newest.data % newest.layout.align = 0
              /\ bump.footers[bump.current_chunk_footer].layout = newest.layout
              /\ bump.footers[bump.current_chunk_footer].data = newest.data
    /\ \A f \in Chunks :
          bump.footers[f].prev # None =>
              bump.footers[f].layout.size
                 >= 2 * bump.footers[bump.footers[f].prev].layout.size

\* A layout aligned to 16 took a chunk sized by the layout and the footer,
\* and the next allocation a chunk of twice that size.
C30_Witness ==
    /\ last.slow /\ prev_op.slow
    /\ prev_op.layout.align = 16
    /\ prev_op.layout.size + FOOTER_SIZE > 2 * DEFAULT_CHUNK_SIZE_WITH_FOOTER
    /\ Cardinality(Chunks) = 3
    /\ bump.footers[bump.current_chunk_footer].layout.size
          > SlowLayout.size + FOOTER_SIZE + DEFAULT_CHUNK_ALIGN

\* C31: the slow path succeeds inside the chunk it has just acquired: the
\* pointer p it returns for a layout L lies at or above the chunk's data,
\* p + L.size at or below the footer, p is a multiple of L.align; the new
\* chunk is the current one, its prev is the chunk that was current, its
\* cursor is p and its end_of_first_allocation is p + L.size.
C31_SlowPathFitsNewChunk ==
    /\ NeededChunk /\ ~ last.null => last.ok /\ last.slow
    /\ last.slow =>
          LET f == bump.current_chunk_footer
              foot == bump.footers[f]
              newest == acquired[Len(acquired)]
          IN  /\ last.ok
              /\ f = footer_of(newest.data, newest.layout)
              /\ foot.data = newest.data
              /\ foot.data <= last.ret
              /\ last.ret + SlowLayout.size <= f
              /\ last.ret % SlowLayout.align = 0
              /\ foot.prev = pre.bump.current_chunk_footer
              /\ foot.ptr = last.ret
              /\ foot.end_of_first_allocation = last.ret + SlowLayout.size
              /\ \A g \in DOMAIN pre.bump.footers : bump.footers[g] = pre.bump.footers[g]

\* A layout aligned to 16 took the slow path into a chunk whose footer is
\* not a multiple of 16, while a block was live in the chunk before it.
C31_Witness ==
    /\ last.slow /\ last.ok /\ SlowLayout.align = 16 /\ SlowLayout.size > 0
    /\ bump.current_chunk_footer % 16 # 0
    /\ last.ret + SlowLayout.size < bump.current_chunk_footer
    /\ \E x \in live : NonZero(x) /\ x.ptr < pre.bump.current_chunk_footer
                         /\ x.ptr >= pre.bump.footers[pre.bump.current_chunk_footer].data

\* C32: in every state and for every chunk, data <= ptr <= footer, and when
\* end_of_first_allocation is set, ptr <= end_of_first_allocation <= footer:
\* the debug assertions on these bounds in try_alloc_layout_fast and
\* ChunkIter::next hold after any sequence of alloc, dealloc, realloc and
\* reset.
C32_CursorWithinChunk ==
    \A f \in DOMAIN bump.footers :
        LET foot == bump.footers[f]
        IN  /\ foot.data <= foot.ptr
            /\ foot.ptr <= f
            /\ foot.end_of_first_allocation # None =>
                  /\ foot.ptr <= foot.end_of_first_allocation
                  /\ foot.end_of_first_allocation <= f

\* The tail of the second of two chunks was deallocated and the cursor is
\* back at the end of the chunk's first allocation, below the footer.
C32_Witness ==
    /\ last.op = "dealloc" /\ last.tail /\ last.layout.size > 0
    /\ Cardinality(Chunks) = 2
    /\ Cursor(bump) = bump.footers[bump.current_chunk_footer].end_of_first_allocation
    /\ Cursor(bump) < bump.current_chunk_footer

\* The regions acquired from the system allocator and not released.
Held == {acquired[i] : i \in 1 .. Len(acquired)} \ {released[i] : i \in 1 .. Len(released)}

\* Whether the bytes [lo, lo + count) lie outside every region released to
\* the system allocator.
Unreleased(lo, count) ==
    \A i \in 1 .. Len(released) :
        \/ count = 0
        \/ lo + count <= released[i].data
        \/ released[i].data + released[i].layout.size <= lo

\* C33: the prev chain from the current chunk is finite and acyclic and ends
\* at a chunk whose prev is None; every region acquired from the system
\* allocator is released at most once, with the data and layout it was
\* acquired with, by the reset that takes it off the chain or by the drop,
\* after which every region has been released; the chunks of a live arena
\* and the blocks in them lie in regions not released, and no byte the copy
\* of a realloc reads or writes lies in a released region.
C33_ChunksReleasedOnce ==
    /\ (last.op = "realloc" /\ (last.ok \/ last.died)) =>
          LET count == realloc_copy_count(pre.bump, last.ptr, last.layout, last.new_size)
          IN  /\ Unreleased(last.ptr, count)
              /\ last.ok => Unreleased(last.ret, count)
    /\ \A i, j \in 1 .. Len(released) : released[i] = released[j] => i = j
    /\ \A i \in 1 .. Len(released) : \E j \in 1 .. Len(acquired) : acquired[j] = released[i]
    /\ Alive =>
          LET c == chain(bump.footers, bump.current_chunk_footer)
          IN  /\ \A i, j \in 1 .. Len(c) : c[i] = c[j] => i = j
              /\ bump.footers[c[Len(c)]].prev = None
              /\ Chunks = DOMAIN bump.footers
              /\ {[data |-> bump.footers[f].data, layout |-> bump.footers[f].layout] :
                     f \in Chunks} = Held
              /\ \A x \in live : NonZero(x) =>
                    \E h \in Held : h.data <= x.ptr /\ x.ptr + x.layout.size <= h.data + h.layout.size
    /\ ~ Alive => Held = {} /\ Len(released) = Len(acquired) /\ live = {}
    /\ last.op \in {"reset", "drop"} =>
          {released[i] : i \in pre.released + 1 .. Len(released)}
             = {[data |-> pre.bump.footers[f].data, layout |-> pre.bump.footers[f].layout] :
                   f \in DOMAIN pre.bump.footers
                         \ (IF last.op = "reset" THEN {pre.bump.current_chunk_footer} ELSE {})}

\* The chunks whose end_of_first_allocation is unset.
Unallocated == {f \in Chunks : bump.footers[f].end_of_first_allocation = None}

\* C34 as stated: a chunk whose end_of_first_allocation is unset is the only
\* chunk of the arena.
C34_UnsetChunkIsOnly ==
    Alive => \A f \in Unallocated : Chunks = {f}

\* C34, amended: every chunk that has a prev has end_of_first_allocation
\* set; a chunk in which it is unset is the oldest chunk of the arena and
\* holds no block.  So the assertion in ChunkIter::next holds and the
\* iteration yields every chunk but that one.
C34_UnsetChunkIsOldest ==
    Alive =>
        /\ \A f \in Chunks :
              bump.footers[f].prev # None => bump.footers[f].end_of_first_allocation # None
        /\ \A f \in Unallocated :
              /\ bump.footers[f].prev = None
              /\ bump.footers[f].ptr = f
              /\ \A x \in live : NonZero(x) => ChunkOf(x.ptr) # f
        /\ Len(iter_allocated_chunks(bump)) = Cardinality(Chunks \ Unallocated)

\* The arena has two chunks: nothing was allocated in the first, and a
\* block is live in the second.
C34_Witness ==
    /\ Alive
    /\ Cardinality(Chunks) = 2
    /\ Cardinality(Unallocated) = 1
    /\ \E x \in live : NonZero(x)
    /\ Len(iter_allocated_chunks(bump)) = 1

\* C35: a realloc that grows a block reads only the old block
\* [ptr, ptr + old_size): the copy into the grown block takes old_size bytes
\* from ptr, where the block grows in place and where it moves, and so no
\* byte of another block, of the footer or beyond the chunk.
C35_GrowReadsOnlyOldBlock ==
    (Grew /\ last.ok) =>
        LET count == grow_copy_count(pre.bump, last.ptr, last.layout, last.new_size)
            f == pre.bump.current_chunk_footer
        IN  /\ count = last.layout.size
            /\ \A x \in live :
                  x.id # last.id /\ NonZero(x)
                     => ~ Overlap(last.ptr, count, x.ptr, x.layout.size)
            /\ last.tail => last.ptr + count <= f

\* The smallest multiple of align that is at least len, in the integers.
RoundedUp(len, align) == ((len + align - 1) \div align) * align

\* C36: padding_needed_for(align) on a layout of size len returns the
\* smallest k >= 0 with (len + k) mod align = 0 where len + align - 1 does
\* not overflow, and where it overflows the k for which len + k wraps to 0.
C36_PaddingNeededFor ==
    computed.fn = "padding_needed_for" =>
        LET len == computed.layout.size
            align == computed.x
            k == computed.ret
        IN  /\ k \in 0..USIZE_MAX
            /\ IF len + align - 1 <= USIZE_MAX
               THEN /\ (len + k) % align = 0
                    /\ \A j \in 0..(k - 1) : (len + j) % align # 0
               ELSE len + k = 2^WordBits

\* A size that is not a multiple of the alignment and within align - 1 of
\* the top of usize: the padding takes it to 2^WordBits.
C36_Witness ==
    /\ computed.fn = "padding_needed_for"
    /\ computed.layout.size + computed.x - 1 > USIZE_MAX
    /\ computed.x = 8
    /\ computed.ret = 3

\* C37: repeat(n) returns the stride, the size rounded up to the layout's
\* alignment, and a layout of size stride * n with the same alignment; where
\* the rounded size or stride * n does not fit usize it returns the layout
\* error, never a wrapped size.
C37_RepeatChecked ==
    computed.fn = "repeat" =>
        LET layout == computed.layout
            n == computed.x
            stride == RoundedUp(layout.size, layout.align)
        IN  IF stride > USIZE_MAX \/ (n # 0 /\ stride > USIZE_MAX \div n)
            THEN computed.ret = LayoutErr
            ELSE /\ ~ computed.ret.err
                 /\ computed.ret.layout = Layout(stride * n, layout.align)
                 /\ computed.ret.stride = stride


\* The entries met by following next from the head until the head is met
\* again, or none is left to follow, or more than MaxEntries were met.
RECURSIVE Following(_, _, _)
Following(link, curr, fuel) ==
    IF curr = ListHead \/ curr = None \/ fuel = 0
    THEN << >>
    ELSE <<curr>> \o Following(link, link[curr].next, fuel - 1)

Reverse(s) == [i \in 1..Len(s) |-> s[Len(s) + 1 - i]]

Linked == {ListHead} \cup {drop_list.order[i] : i \in 1..Len(drop_list.order)}

\* The drop list is a circular doubly linked list of the entries inserted
\* and not yet unlinked: n.next.prev = n and n.prev.next = n for the head
\* and every linked entry; following next from the head meets those
\* entries, the most recently inserted first, and then the head; an
\* unlinked entry has neither prev nor next, and unlinking it again changes
\* nothing; no call panicked.
WellFormed ==
    LET link == drop_list.link
    IN  /\ ~ drop_list.call.panicked
        /\ \A n \in Linked :
              /\ link[n].next # None /\ link[link[n].next].prev = n
              /\ link[n].prev # None /\ link[link[n].prev].next = n
        /\ Following(link, link[ListHead].next, MaxEntries + 1) = Reverse(drop_list.order)
        /\ \A n \in Entries \ Linked : link[n] = Link(None, None)
        /\ (drop_list.call.op = "unlink" /\ drop_list.before[drop_list.call.node].prev = None)
              => link = drop_list.before

\* C39 as stated: after init and any insert and unlink calls the drop list
\* is a well-formed circular doubly linked list.
C39_CircularList ==
    drop_list.phase \in {"inited", "relinked"} => WellFormed

\* C39: after init and any insert and unlink calls in which every entry
\* inserted is one that is not linked, the drop list is a well-formed
\* circular doubly linked list.
C39_CircularListOfUnlinked ==
    drop_list.phase = "inited" => WellFormed

\* An entry between two others was unlinked, and then unlinked again.
C39_Witness ==
    /\ drop_list.phase = "inited"
    /\ drop_list.call = ListCall("unlink", 2, FALSE)
    /\ drop_list.before[2] = Link(None, None)
    /\ drop_list.order = <<1, 3>>
    /\ drop_list.link[3].next = 1

\* What holds of the entries' destructors at every moment: run_drop has
\* neither panicked nor ended the process; none has run on bytes that are
\* not its value and none has run twice; a value whose Box was dropped has been dropped and its entry is
\* unlinked; a value whose Box is held, forgotten or inside another value
\* has not been dropped before the arena is; every value registered has
\* been dropped once run_drop has returned.
DropsInOrder ==
    /\ drop_list.walk.state \notin {"panicked", "aborted"}
    /\ drop_list.stray = {}
    /\ \A e \in Entries :
          /\ drop_list.dropped[e] <= 1
          /\ drop_list.box[e] = "none" => drop_list.dropped[e] = 0
          /\ drop_list.box[e] = "held" => drop_list.dropped[e] = 0
          /\ drop_list.box[e] = "dropped" =>
                drop_list.dropped[e] = 1 /\ drop_list.link[e] = Link(None, None)
          /\ (drop_list.box[e] \in {"forgotten", "given"} /\ drop_list.walk.state = "idle") =>
                drop_list.dropped[e] = 0
          /\ (drop_list.box[e] # "none" /\ drop_list.walk.state = "done") =>
                drop_list.dropped[e] = 1

\* C38: every value registered in the drop list is dropped exactly once:
\* dropping its Box runs the destructor and unlinks the entry, so that the
\* arena's walk skips it; every entry still linked when the arena is dropped
\* has its destructor run once by run_drop, which ends after it has visited
\* each linked entry once.
C38_DroppedExactlyOnce ==
    /\ []DropsInOrder
    /\ (drop_list.walk.state = "running") ~> (drop_list.walk.state = "done")

====
